---- MODULE Spec2Model ----
(***************************************************************************)
(* Model of the laptop hardware detector (hardware_detector.py) and its    *)
(* Supabase uploader (supabase_uploader.py).                               *)
(*                                                                         *)
(* One run of main is detect_all, map_to_bestbuy_fields,                   *)
(* prompt_manual_fields and then persistence: save_results to two local    *)
(* JSON files, or upload_to_database against four remote tables, with      *)
(* save_results as the fallback on any error.  The remote tables outlive a *)
(* run, so the model lets main run several times against the same store.   *)
(***************************************************************************)
EXTENDS Integers, Sequences, FiniteSets, TLC

(***************************************************************************)
(* Python values.  A value carries its type, so that truthiness and        *)
(* equality are those of Python: None, str, int/float, bool, list.         *)
(* Screen sizes are floats with one decimal and are kept in tenths of an   *)
(* inch (14.0 is 140).                                                     *)
(***************************************************************************)
None == [t |-> "none", v |-> 0]
S(s) == [t |-> "s", v |-> s]
N(n) == [t |-> "n", v |-> n]
B(b) == [t |-> "b", v |-> b]
L(l) == [t |-> "l", v |-> l]

\* Python truth value of v: `if v`.
Truthy(v) ==
    CASE v.t = "none" -> FALSE
      [] v.t = "s" -> v.v # ""
      [] v.t = "n" -> v.v # 0
      [] v.t = "b" -> v.v
      [] v.t = "l" -> Len(v.v) > 0

\* Python `a == b` on values of the model (values of different types differ).
PyEq(a, b) == a.t = b.t /\ a.v = b.v

\* Python `v is None`.
IsNone(v) == v.t = "none"

\* str(v) as an f-string renders it.
Str(v) ==
    CASE v.t = "none" -> "None"
      [] v.t = "s" -> v.v
      [] v.t = "n" -> ToString(v.v)
      [] v.t = "b" -> IF v.v THEN "True" ELSE "False"
      [] v.t = "l" -> "[...]"

\* dict.get(k, default) and dict.get(k).
Get(d, k, default) == IF k \in DOMAIN d THEN d[k] ELSE default
GetOrNone(d, k) == Get(d, k, None)

\* d[k] = v.
Put(d, k, v) == (k :> v) @@ d

\* The dict d updated with every item of e.
Update(d, e) == e @@ d

EmptyDict == [x \in {} |-> None]

(***************************************************************************)
(* A line of lspci output kept in raw_data["gpus"].  The code only asks    *)
(* whether the lower-cased line contains certain substrings, what the first*)
(* bracketed name is, and what follows "controller:" up to the first "(".  *)
(*   igfx:    contains "uhd", "iris" or "hd graphics"                      *)
(*   bracket: the first [...] group, "" when the line has none             *)
(*   ctrl:    the text after "controller:", "" when the line has none      *)
(***************************************************************************)
IntelLine ==
    [intel |-> TRUE, igfx |-> TRUE, amd |-> FALSE, radeon |-> FALSE, vega |-> FALSE,
     nvidia |-> FALSE, rx |-> FALSE, bracket |-> "UHD Graphics 620",
     ctrl |-> "Intel Corporation UHD Graphics 620"]
NvidiaLine ==
    [intel |-> FALSE, igfx |-> FALSE, amd |-> FALSE, radeon |-> FALSE, vega |-> FALSE,
     nvidia |-> TRUE, rx |-> FALSE, bracket |-> "GeForce MX150",
     ctrl |-> "NVIDIA Corporation GP108M"]
VegaLine ==
    [intel |-> FALSE, igfx |-> FALSE, amd |-> TRUE, radeon |-> TRUE, vega |-> TRUE,
     nvidia |-> FALSE, rx |-> FALSE, bracket |-> "",
     ctrl |-> "AMD Radeon Vega 8"]

\* extract_integrated_gpu's scan of gpus[i..]: the first line that yields a name.
RECURSIVE IntegratedFrom(_, _)
IntegratedFrom(gpus, i) ==
    IF i > Len(gpus) THEN None
    ELSE LET g == gpus[i] IN
        IF g.intel /\ g.igfx /\ g.bracket # "" THEN S("Intel " \o g.bracket)
        ELSE IF g.intel /\ g.igfx /\ g.ctrl # "" THEN S(g.ctrl)
        ELSE IF g.amd /\ g.radeon /\ g.vega /\ g.bracket # "" THEN S("AMD " \o g.bracket)
        ELSE IF g.amd /\ g.radeon /\ g.vega /\ g.ctrl # "" THEN S(g.ctrl)
        ELSE IntegratedFrom(gpus, i + 1)

extract_integrated_gpu(raw) ==
    IF "gpu_model" \in DOMAIN raw /\ PyEq(GetOrNone(raw, "gpu_type"), S("Integrated GPU"))
    THEN raw["gpu_model"]
    ELSE IF "gpus" \in DOMAIN raw /\ Truthy(raw["gpus"])
    THEN IntegratedFrom(raw["gpus"].v, 1)
    ELSE None

\* extract_dedicated_gpu's scan of gpus[i..].
RECURSIVE DedicatedFrom(_, _)
DedicatedFrom(gpus, i) ==
    IF i > Len(gpus) THEN None
    ELSE LET g == gpus[i] IN
        IF g.nvidia /\ g.bracket # "" THEN S("NVIDIA " \o g.bracket)
        ELSE IF g.nvidia /\ g.ctrl # "" THEN S(g.ctrl)
        ELSE IF g.amd /\ g.radeon /\ g.rx /\ g.bracket # "" THEN S("AMD " \o g.bracket)
        ELSE IF g.amd /\ g.radeon /\ g.rx /\ g.ctrl # "" THEN S(g.ctrl)
        ELSE DedicatedFrom(gpus, i + 1)

extract_dedicated_gpu(raw) ==
    IF "gpu_model" \in DOMAIN raw
       /\ PyEq(GetOrNone(raw, "gpu_type"), S("Dedicated or Discrete GPU"))
    THEN raw["gpu_model"]
    ELSE IF "gpus" \in DOMAIN raw /\ Truthy(raw["gpus"])
    THEN DedicatedFrom(raw["gpus"].v, 1)
    ELSE None

has_dedicated_gpu(raw) == ~IsNone(extract_dedicated_gpu(raw))

(***************************************************************************)
(* map_to_bestbuy_fields: the fixed field table.                           *)
(***************************************************************************)
\* Attributes read straight from one raw-bag key: raw_data.get(key, '').
DirectFields ==
    { <<"_Brand_Name_Category_Root_EN", "brand">>,
      <<"_Model_Number_Category_Root_EN", "model">>,
      <<"_ProcessorType_3885_CAT_1002_EN", "cpu_model">>,
      <<"_ProcessorCores_23322_CAT_1002_EN", "cpu_cores">>,
      <<"_ProcessorCache_3897_CAT_1002_EN", "cpu_l3_cache">>,
      <<"_RAMSize_9685909_CAT_1002_EN", "ram_size_gb">>,
      <<"_SolidStateDriveCapacity_4085597_CAT_1002_EN", "ssd_capacity_gb">>,
      <<"_HardDiskDriveCapacity_4085566_CAT_1002_EN", "hdd_capacity_gb">>,
      <<"_ScreenSize_3914_CAT_1002_EN", "screen_size_inches">>,
      <<"_NativeScreenResolution_15195_CAT_1002_EN", "screen_resolution">>,
      <<"_ScreenResolution_25959883_CAT_1002_EN", "screen_resolution">>,
      <<"_GraphicsCard_15196_CAT_1002_EN", "gpu_model">>,
      <<"_GraphicsProcessingUnitType_22765592_CAT_1002_EN", "gpu_type">>,
      <<"_BatteryCapacity_15253_CAT_1002_EN", "battery_capacity_mah">> }

\* Attributes rendered "Yes" if raw_data.get(key) else "No".
YesNoFields ==
    { <<"_TouchscreenDisplay_23335_CAT_1002_EN", "has_touchscreen">>,
      <<"_IntegratedWiFi_15245_CAT_1002_EN", "has_wifi">>,
      <<"_IntegratedBluetooth_15246_CAT_1002_EN", "has_bluetooth">>,
      <<"_EthernetPort_6605_CAT_1002_EN", "has_ethernet">>,
      <<"_Webcam_15213_CAT_1002_EN", "has_webcam">> }

ProcessorSpeedKey == "_ProcessorSpeed_3886_CAT_1002_EN"
RAMTypeKey == "_RAMType_24674_CAT_1002_EN"

MappedKeys ==
    {"BBYCat", "shop_sku", ProcessorSpeedKey, RAMTypeKey}
        \cup {f[1] : f \in DirectFields} \cup {f[1] : f \in YesNoFields}

\* The raw-bag key a table attribute reads.
SourceOf(table, k) == (CHOOSE f \in table : f[1] = k)[2]

\* The dict literal map_to_bestbuy_fields builds, before the empty fields are removed.
MappedValue(raw, k) ==
    CASE k = "BBYCat" -> S("Computers/Laptops")
      [] k = "shop_sku" -> S("SKU-" \o Str(Get(raw, "sku", S("UNKNOWN"))))
      [] k = ProcessorSpeedKey ->
            Get(raw, "cpu_max_ghz", Get(raw, "cpu_speed_ghz", S("")))
      [] k = RAMTypeKey ->
            S(Str(Get(raw, "ram_size_gb", S(""))) \o " GB "
                \o Str(Get(raw, "ram_type", S(""))) \o " "
                \o Str(Get(raw, "ram_speed", S(""))))
      [] k \in {f[1] : f \in DirectFields} -> Get(raw, SourceOf(DirectFields, k), S(""))
      [] k \in {f[1] : f \in YesNoFields} ->
            IF Truthy(GetOrNone(raw, SourceOf(YesNoFields, k))) THEN S("Yes") ELSE S("No")

\* The filter with `if v is not None` in place of `if v`: it keeps '' and 0.
RemoveNoneFields(d) == [k \in {x \in DOMAIN d : ~IsNone(d[x])} |-> d[k]]

\* {k: v for k, v in d.items() if v}
RemoveEmptyFields(d) == [k \in {x \in DOMAIN d : Truthy(d[x])} |-> d[k]]

map_to_bestbuy_fields(raw) ==
    RemoveEmptyFields([k \in MappedKeys |-> MappedValue(raw, k)])

(***************************************************************************)
(* prompt_manual_fields.  An answer is what input() returns at each        *)
(* prompt, already stripped (and lower-cased where the code does so).      *)
(***************************************************************************)
\* float(s) for the answers the model types in; any other string raises.
FloatTable == ("15.6" :> 156) @@ ("0" :> 0)
DefaultScreenSize == 140

\* The screen size asked for whatever the raw bag holds.
PromptsScreenSizeAlways(raw) == TRUE

PromptsScreenSize(raw) ==
    \/ ~Truthy(GetOrNone(raw, "screen_size_inches"))
    \/ PyEq(GetOrNone(raw, "screen_size_inches"), N(0))

PromptsTouchscreen(raw) == IsNone(GetOrNone(raw, "has_touchscreen"))

\* The raw bag after the prompts.
PromptRaw(raw, ans) ==
    LET r1 == IF PromptsScreenSize(raw)
              THEN Put(raw, "screen_size_inches",
                       IF ans.screen \in DOMAIN FloatTable
                       THEN N(FloatTable[ans.screen]) ELSE N(DefaultScreenSize))
              ELSE raw
    IN IF PromptsTouchscreen(r1)
       THEN Put(r1, "has_touchscreen", B(ans.touchscreen = "y"))
       ELSE r1

KeyboardLanguages == ("1" :> "English") @@ ("2" :> "French") @@ ("3" :> "Bilingual")
Conditions ==
    ("1" :> "Brand New") @@ ("2" :> "Open Box") @@ ("3" :> "Refurbished Excellent")
        @@ ("4" :> "Refurbished Good") @@ ("5" :> "Refurbished Fair")

YesNo(b) == IF b THEN S("Yes") ELSE S("No")

\* The prompts prompt_manual_fields shows, in order, each with the answer.
Prompts(raw, ans) ==
    (IF PromptsScreenSize(raw) THEN <<[prompt |-> "Screen size", answer |-> ans.screen]>>
     ELSE <<>>)
    \o <<[prompt |-> "Keyboard Language", answer |-> ans.keyboard],
          [prompt |-> "Backlit Keyboard", answer |-> ans.backlit]>>
    \o (IF PromptsTouchscreen(raw)
         THEN <<[prompt |-> "Touchscreen Display", answer |-> ans.touchscreen]>> ELSE <<>>)
    \o <<[prompt |-> "Convertible/Hybrid", answer |-> ans.convertible],
          [prompt |-> "Main Color", answer |-> ans.color],
          [prompt |-> "Product Condition", answer |-> ans.condition]>>

\* The attribute set after the prompts.
PromptBestbuy(bb, ans) ==
    Update(bb,
        ("_KeyboardLanguage_24678_CAT_1002_EN" :>
            S(IF ans.keyboard \in DOMAIN KeyboardLanguages
              THEN KeyboardLanguages[ans.keyboard] ELSE "English"))
        @@ ("_BacklitKeyboard_24680_CAT_1002_EN" :> YesNo(ans.backlit = "y"))
        @@ ("_ConvertibleHybridDisplay_36185_CAT_1002_EN" :> YesNo(ans.convertible = "y"))
        @@ ("_Colour_5105_CAT_1002_EN" :> S(ans.color))
        @@ ("_ProductCondition_20257570_CAT_1002_EN" :>
            S(IF ans.condition \in DOMAIN Conditions
              THEN Conditions[ans.condition] ELSE "Brand New")))

(***************************************************************************)
(* load_secrets.  The credentials file is absent or a JSON object with     *)
(* some set of keys.                                                       *)
(***************************************************************************)
RequiredSecrets == {"supabase_url", "supabase_anon_key"}
SecretsFiles ==
    {[exists |-> FALSE, keys |-> {}]}
        \cup {[exists |-> TRUE, keys |-> K] : K \in SUBSET RequiredSecrets}

\* load_secrets with only the URL among the required keys.
load_secrets_url_only(file) ==
    IF ~file.exists THEN "FileNotFoundError"
    ELSE IF "supabase_url" \notin file.keys THEN "ValueError"
    ELSE ""

\* The exception load_secrets raises on this file, "" when it returns the secrets.
load_secrets(file) ==
    IF ~file.exists THEN "FileNotFoundError"
    ELSE IF {k \in RequiredSecrets : k \notin file.keys} # {} THEN "ValueError"
    ELSE ""

(***************************************************************************)
(* upload_to_database: the rows it builds.                                 *)
(***************************************************************************)
TouchscreenKey == "_TouchscreenDisplay_23335_CAT_1002_EN"

model_data(raw, bb) ==
    [base_model_name |-> Get(raw, "model", S("Unknown Model")),
     cpu_model |-> Get(raw, "cpu_model", S("Unknown CPU")),
     screen_size_inches |-> GetOrNone(raw, "screen_size_inches"),
     has_touchscreen |-> B(PyEq(GetOrNone(bb, TouchscreenKey), S("Yes"))),
     integrated_gpu_model |-> extract_integrated_gpu(raw),
     dedicated_gpu_model |-> extract_dedicated_gpu(raw)]

\* A filter .eq(column, v): SQL equality, which no row satisfies for a null.
ColumnEq(x, v) == ~IsNone(v) /\ PyEq(x, v)

\* The nullable GPU filter written as a plain .eq, which a null never satisfies.
NullableEqAsEq(x, v) == ColumnEq(x, v)

\* The filter on a nullable GPU column: .is_(column, None) or .eq(column, v).
NullableEq(x, v) == IF IsNone(v) THEN IsNone(x) ELSE PyEq(x, v)

\* The existence query with the touchscreen column compared with the
\* attribute's text ("Yes"/"No") instead of the boolean.
ExistingModelsTouchAsText(models, md) ==
    {m \in models :
        /\ ColumnEq(m.base_model_name, md.base_model_name)
        /\ ColumnEq(m.cpu_model, md.cpu_model)
        /\ ColumnEq(m.screen_size_inches, md.screen_size_inches)
        /\ ColumnEq(m.has_touchscreen, IF md.has_touchscreen.v THEN S("Yes") ELSE S("No"))
        /\ NullableEq(m.integrated_gpu_model, md.integrated_gpu_model)
        /\ NullableEq(m.dedicated_gpu_model, md.dedicated_gpu_model)}

\* The rows of laptop_models the existence query selects.
ExistingModels(models, md) ==
    {m \in models :
        /\ ColumnEq(m.base_model_name, md.base_model_name)
        /\ ColumnEq(m.cpu_model, md.cpu_model)
        /\ ColumnEq(m.screen_size_inches, md.screen_size_inches)
        /\ ColumnEq(m.has_touchscreen, md.has_touchscreen)
        /\ NullableEq(m.integrated_gpu_model, md.integrated_gpu_model)
        /\ NullableEq(m.dedicated_gpu_model, md.dedicated_gpu_model)}

ModelRow(md, id) ==
    [id |-> id,
     base_model_name |-> md.base_model_name,
     cpu_model |-> md.cpu_model,
     screen_size_inches |-> md.screen_size_inches,
     has_touchscreen |-> md.has_touchscreen,
     integrated_gpu_model |-> md.integrated_gpu_model,
     dedicated_gpu_model |-> md.dedicated_gpu_model]

hardware_data(raw, bb, mid) ==
    [model_id |-> mid,
     brand |-> GetOrNone(raw, "brand"),
     model |-> GetOrNone(raw, "model"),
     manufacturer_sku |-> GetOrNone(raw, "sku"),
     cpu_speed_ghz |-> IF Truthy(GetOrNone(raw, "cpu_max_ghz"))
                       THEN raw["cpu_max_ghz"] ELSE GetOrNone(raw, "cpu_speed_ghz"),
     cpu_cores |-> GetOrNone(raw, "cpu_cores"),
     cpu_cache |-> GetOrNone(raw, "cpu_l3_cache"),
     ram_type |-> GetOrNone(raw, "ram_type"),
     screen_resolution |-> GetOrNone(raw, "screen_resolution"),
     has_touchscreen |-> B(PyEq(GetOrNone(bb, TouchscreenKey), S("Yes"))),
     integrated_gpu_model |-> extract_integrated_gpu(raw),
     dedicated_gpu_model |-> extract_dedicated_gpu(raw),
     has_dedicated_gpu |-> B(has_dedicated_gpu(raw)),
     has_wifi |-> Get(raw, "has_wifi", B(FALSE)),
     has_bluetooth |-> Get(raw, "has_bluetooth", B(FALSE)),
     has_ethernet |-> Get(raw, "has_ethernet", B(FALSE)),
     has_webcam |-> Get(raw, "has_webcam", B(FALSE)),
     raw_detection_json |-> raw]

variant_data(raw, mid) ==
    [model_id |-> mid,
     ram_size_gb |-> Get(raw, "ram_size_gb", N(0)),
     ssd_capacity_gb |-> Get(raw, "ssd_capacity_gb", N(0)),
     price |-> None]

\* The rows of laptop_variants the existence query selects.
ExistingVariants(variants, vd) ==
    {v \in variants :
        /\ v.model_id = vd.model_id
        /\ ColumnEq(v.ram_size_gb, vd.ram_size_gb)
        /\ ColumnEq(v.ssd_capacity_gb, vd.ssd_capacity_gb)}

\* A variant row stored without its link to the model.
VariantRowUnlinked(vd, id) ==
    [id |-> id,
     shop_sku |-> S("LAP-" \o ToString(id)),
     model_id |-> 0,
     ram_size_gb |-> vd.ram_size_gb,
     ssd_capacity_gb |-> vd.ssd_capacity_gb,
     price |-> vd.price]

\* The row the database stores for an inserted variant: it assigns id and shop_sku.
VariantRow(vd, id) ==
    [id |-> id,
     shop_sku |-> S("LAP-" \o ToString(id)),
     model_id |-> vd.model_id,
     ram_size_gb |-> vd.ram_size_gb,
     ssd_capacity_gb |-> vd.ssd_capacity_gb,
     price |-> vd.price]

\* The inventory record counting the scanned laptop as one in stock.
inventory_data_counting_one(mid) ==
    [model_id |-> mid, inventory_count |-> N(1), damaged_count |-> N(0)]

inventory_data(mid) == [model_id |-> mid, inventory_count |-> N(0), damaged_count |-> N(0)]

\* {k: v for k, v in d.items() if v is not None}
RemoveNone(d) == [k \in {x \in DOMAIN d : ~IsNone(d[x])} |-> d[k]]

\* The row with `if v` in place of `if v is not None`: False and '' are dropped.
manual_fields_data_dropping_falsy(bb, vid) ==
    RemoveEmptyFields(
        ("variant_id" :> N(vid))
        @@ ("keyboard_language" :> GetOrNone(bb, "_KeyboardLanguage_24678_CAT_1002_EN"))
        @@ ("backlit_keyboard" :>
                B(PyEq(GetOrNone(bb, "_BacklitKeyboard_24680_CAT_1002_EN"), S("Yes"))))
        @@ ("convertible_hybrid" :>
                B(PyEq(GetOrNone(bb, "_ConvertibleHybridDisplay_36185_CAT_1002_EN"), S("Yes"))))
        @@ ("colour" :> GetOrNone(bb, "_Colour_5105_CAT_1002_EN"))
        @@ ("product_condition" :> GetOrNone(bb, "_ProductCondition_20257570_CAT_1002_EN")))

manual_fields_data(bb, vid) ==
    RemoveNone(
        ("variant_id" :> N(vid))
        @@ ("keyboard_language" :> GetOrNone(bb, "_KeyboardLanguage_24678_CAT_1002_EN"))
        @@ ("backlit_keyboard" :>
                B(PyEq(GetOrNone(bb, "_BacklitKeyboard_24680_CAT_1002_EN"), S("Yes"))))
        @@ ("convertible_hybrid" :>
                B(PyEq(GetOrNone(bb, "_ConvertibleHybridDisplay_36185_CAT_1002_EN"), S("Yes"))))
        @@ ("colour" :> GetOrNone(bb, "_Colour_5105_CAT_1002_EN"))
        @@ ("product_condition" :> GetOrNone(bb, "_ProductCondition_20257570_CAT_1002_EN")))

\* table.upsert(row, on_conflict=key): the row replaces the columns it gives of
\* the row with the same key, or is added.
Upsert(table, row, key) ==
    LET old == {r \in table : r[key] = row[key]}
    IN (table \ old) \cup
        (IF old = {} THEN {row} ELSE {Update(r, row) : r \in old})

(***************************************************************************)
(* The probes of HardwareDetector.  What an external command prints is     *)
(* kept as what the probe's regular expressions find in it:                *)
(*   text:  the output itself, "" when the command printed nothing         *)
(*   found: pattern |-> the captured group(s), for the patterns that match *)
(* A captured string is kept stripped.  A run of a command is              *)
(* [outcome, out]: the command ran ("ok") and printed out, or it is        *)
(* "missing", or it ran into its "timeout".                                *)
(***************************************************************************)
NoOutput == [text |-> "", found |-> EmptyDict]

\* run_command and run_command_with_sudo: stdout, '' on any exception.
run_command(run) == IF run.outcome = "ok" THEN run.out ELSE NoOutput

\* subprocess.run(..., shell=True) as the probes call it directly: a missing
\* command leaves stdout empty, a timeout raises.
ShellRun(run) ==
    [raised |-> run.outcome = "timeout",
     out |-> IF run.outcome = "ok" THEN run.out ELSE NoOutput]

Matched(out, pattern) == pattern \in DOMAIN out.found

\* raw_data[key] = value if the condition holds, and '' if not.
PutOrBlank(raw, cond, key, value) == Put(raw, key, IF cond THEN value ELSE S(""))

\* raw_data[key] = value if the condition holds.
PutIf(raw, cond, key, value) == IF cond THEN Put(raw, key, value) ELSE raw

Abs(x) == IF x < 0 THEN -x ELSE x

\* round(n / d) for n >= 0: Python rounds a half to the even neighbour.
Round(n, d) ==
    LET q == n \div d
        r == n % d
    IN IF 2 * r > d THEN q + 1
       ELSE IF 2 * r < d THEN q
       ELSE IF q % 2 = 0 THEN q ELSE q + 1

RECURSIVE Sum(_)
Sum(seq) == IF seq = <<>> THEN 0 ELSE Head(seq) + Sum(Tail(seq))

\* The raw-bag keys detect_system_info parses from `dmidecode -t system`.
SystemFields ==
    { <<"brand", "Manufacturer">>, <<"model", "Product Name">>,
      <<"serial", "Serial Number">>, <<"uuid", "UUID">>, <<"sku", "SKU Number">>,
      <<"family", "Family">> }

detect_system_info(raw, m) ==
    LET system == run_command(m.dmidecode_system)
        r0 == Update(raw,
                ("dmidecode_system" :> S(system.text))
                @@ ("dmidecode_bios" :> S(run_command(m.dmidecode_bios).text))
                @@ ("dmidecode_chassis" :> S(run_command(m.dmidecode_chassis).text)))
        hits == {f \in SystemFields : Matched(system, f[2])}
    IN Update(r0, [k \in {f[1] : f \in hits} |->
                        system.found[(CHOOSE f \in hits : f[1] = k)[2]]])

\* The unit as lscpu prints it.
UnitKept == ("KiB" :> "KiB") @@ ("MiB" :> "MiB") @@ ("GiB" :> "GiB")

\* unit.replace('iB', 'B') on the units the L3 pattern admits.
UnitConverted == ("KiB" :> "KB") @@ ("MiB" :> "MB") @@ ("GiB" :> "GB")

\* Clock rates are kept in MHz, and in hundredths of a GHz (round(x / 1000, 2)).
detect_processor(raw, m) ==
    LET lscpu == run_command(m.lscpu)
        r0 == Put(raw, "lscpu", S(lscpu.text))
        r1 == PutIf(r0, Matched(lscpu, "Model name"), "cpu_model",
                    lscpu.found["Model name"])
        r2 == PutIf(r1, Matched(lscpu, "Core(s) per socket") /\ Matched(lscpu, "Socket(s)"),
                    "cpu_cores",
                    N(lscpu.found["Core(s) per socket"].v * lscpu.found["Socket(s)"].v))
        r3 == IF Matched(lscpu, "CPU MHz")
              THEN Update(r2, ("cpu_speed_mhz" :> lscpu.found["CPU MHz"])
                        @@ ("cpu_speed_ghz" :> N(Round(lscpu.found["CPU MHz"].v, 10))))
              ELSE r2
        r4 == IF Matched(lscpu, "CPU max MHz")
              THEN Update(r3, ("cpu_max_mhz" :> lscpu.found["CPU max MHz"])
                        @@ ("cpu_max_ghz" :> N(Round(lscpu.found["CPU max MHz"].v, 10))))
              ELSE r3
        r5 == PutIf(r4, Matched(lscpu, "L3 cache"), "cpu_l3_cache",
                    S(lscpu.found["L3 cache"].size \o " "
                        \o UnitConverted[lscpu.found["L3 cache"].unit] \o " L3"))
    IN Put(r5, "dmidecode_processor", S(run_command(m.dmidecode_processor).text))

(***************************************************************************)
(* detect_memory.  A section of `dmidecode -t memory` (the text between    *)
(* two "Handle"s) is [device, no_module, size]: it contains "Memory        *)
(* Device", it contains "No Module Installed", and the number its          *)
(* "Size: n GB" shows, <<>> when it shows none.                            *)
(***************************************************************************)
RECURSIVE installed_ram_sizes(_)
installed_ram_sizes(sections) ==
    IF sections = <<>> THEN <<>>
    ELSE LET s == Head(sections) IN
        (IF s.device /\ ~s.no_module /\ s.size # <<>> THEN s.size ELSE <<>>)
            \o installed_ram_sizes(Tail(sections))

standard_sizes == <<2, 4, 6, 8, 12, 16, 24, 32, 48, 64, 96, 128, 192, 256>>

KbPerGb == 1024 * 1024

\* The largest standard size that is not above the total.
largest_size_below(mem_kb) ==
    LET below == {i \in DOMAIN standard_sizes : standard_sizes[i] * KbPerGb <= mem_kb}
    IN IF below = {} THEN standard_sizes[1]
       ELSE standard_sizes[CHOOSE i \in below : \A j \in below : j <= i]

\* min(standard_sizes, key=lambda x: abs(x - mem_kb / (1024 * 1024))): the
\* first of the sizes at the smallest distance.
closest_size(mem_kb) ==
    LET dist(i) == Abs(standard_sizes[i] * KbPerGb - mem_kb)
    IN standard_sizes[CHOOSE i \in DOMAIN standard_sizes :
            /\ \A j \in DOMAIN standard_sizes : dist(i) <= dist(j)
            /\ \A j \in DOMAIN standard_sizes : j < i => dist(j) > dist(i)]

soldered_indicators == {"Row Of Chips", "Chip", "Proprietary Card", "Unknown"}

detect_memory(raw, m) ==
    LET dmi == run_command(m.dmidecode_memory)
        r0 == Put(raw, "dmidecode_memory", S(dmi.text))
        sizes == installed_ram_sizes(Get(dmi.found, "sections", <<>>))
        physical_ram_gb == IF sizes # <<>> THEN N(Sum(sizes)) ELSE None
        meminfo == run_command(m.meminfo)
        r1 == PutIf(r0, Matched(meminfo, "MemTotal"), "ram_size_gb",
                    IF Truthy(physical_ram_gb) THEN physical_ram_gb
                    ELSE N(closest_size(Get(meminfo.found, "MemTotal", N(0)).v)))
        r2 == PutIf(r1, Matched(dmi, "Type"), "ram_type", Get(dmi.found, "Type", None))
        r3 == PutIf(r2, Matched(dmi, "Speed"), "ram_speed",
                    S(Str(Get(dmi.found, "Speed", None)) \o " MHz"))
        cap == Get(dmi.found, "Maximum Capacity", [n |-> 0, unit |-> "GB"])
        r4 == PutIf(r3, Matched(dmi, "Maximum Capacity"), "max_ram_capacity_gb",
                    IF cap.unit = "GB" THEN N(cap.n) ELSE N(cap.n \div 1024))
        r5 == PutIf(r4, Matched(dmi, "Number Of Devices"), "ram_slots_total",
                    Get(dmi.found, "Number Of Devices", None))
        form_factors == Get(dmi.found, "Form Factor", <<>>)
        empty_slots == Get(dmi.found, "Size: No Module Installed", 0)
        r6 == IF form_factors # <<>>
              THEN Update(r5, ("ram_form_factor" :> S(form_factors[1]))
                        @@ ("ram_soldered" :> B(form_factors[1] \in soldered_indicators)))
              ELSE r5
        total_slots == Get(r6, "ram_slots_total", N(0)).v
    IN IF total_slots > 0
       THEN Update(r6, ("ram_slots_used" :> N(total_slots - empty_slots))
                @@ ("ram_slots_available" :> N(empty_slots)))
       ELSE IF IsNone(GetOrNone(r6, "ram_soldered"))
       THEN Update(r6, ("ram_soldered" :> B(TRUE)) @@ ("ram_slots_total" :> N(0))
                @@ ("ram_slots_used" :> N(0)) @@ ("ram_slots_available" :> N(0)))
       ELSE r6

(***************************************************************************)
(* detect_display.  Screen sizes are tenths of an inch: round(d / 25.4, 1) *)
(* of a diagonal d in mm is the t with (2t - 1) * 127 <= 100 * d <         *)
(* (2t + 1) * 127, and round(d / 2.54, 1) of one in cm likewise with 1000. *)
(***************************************************************************)
MaxTenths == 170

\* The tenths of an inch nearest to sqrt(squares) * scale / 127.
DiagonalInches(squares, scale) ==
    CHOOSE t \in 0..MaxTenths :
        /\ t = 0 \/ (2 * t - 1) * (2 * t - 1) * 16129 <= scale * scale * squares
        /\ scale * scale * squares < (2 * t + 1) * (2 * t + 1) * 16129

\* The xrandr part: resolution, and the size when both dimensions are nonzero.
DisplayXrandr(raw, m) ==
    LET xrandr == run_command(m.xrandr)
        r0 == Put(raw, "xrandr", S(xrandr.text))
        res == Get(xrandr.found, "resolution", [width |-> "", height |-> ""])
        r1 == PutIf(r0, Matched(xrandr, "resolution"), "screen_resolution",
                    S(res.width \o " x " \o res.height))
        mm == Get(xrandr.found, "mm", [width |-> 0, height |-> 0])
    IN PutIf(r1, Matched(xrandr, "mm") /\ mm.width > 0 /\ mm.height > 0,
             "screen_size_inches",
             N(DiagonalInches(mm.width * mm.width + mm.height * mm.height, 100)))

\* The loop over the EDID files from files[i] on: the first file that
\* edid-decode prints something for is used, and the loop is left.
RECURSIVE DisplayEdid(_, _, _, _)
DisplayEdid(raw, m, files, i) ==
    IF i > Len(files) THEN raw
    ELSE IF files[i] = "" THEN DisplayEdid(raw, m, files, i + 1)
    ELSE LET edid == run_command(m.edid_decode[files[i]]) IN
        IF edid.text = "" THEN DisplayEdid(raw, m, files, i + 1)
        ELSE LET cm == Get(edid.found, "Maximum image size", [width |-> 0, height |-> 0])
             IN PutIf(Put(raw, "edid", S(edid.text)),
                      Matched(edid, "Maximum image size"), "screen_size_inches",
                      N(DiagonalInches(cm.width * cm.width + cm.height * cm.height, 1000)))

\* The files `find /sys/class/drm -name edid` prints: stdout.strip().split('\n').
EdidFiles(m) ==
    LET files == Get(ShellRun(m.find_edid).out.found, "files", <<>>)
    IN IF files = <<>> THEN <<"">> ELSE files

\* run_command swallows every exception, so the except clauses of
\* detect_display (has_touchscreen = None) are never entered.
detect_display(raw, m) ==
    LET r1 == DisplayEdid(DisplayXrandr(raw, m), m, EdidFiles(m), 1)
        xinput == run_command(m.xinput)
    IN Update(r1, ("xinput" :> S(xinput.text))
            @@ ("has_touchscreen" :> B(Matched(xinput, "touch"))))

(***************************************************************************)
(* detect_graphics.  gpu_lines are the lspci lines with "VGA" or           *)
(* "3D controller", as the records described at IntelLine.                 *)
(***************************************************************************)
\* The classification with Intel tested first.
GpuTypeIntelFirst(gpu_lines) ==
    LET has(p(_)) == \E i \in DOMAIN gpu_lines : p(gpu_lines[i])
        nvidia(g) == g.nvidia
        amd_discrete(g) == g.amd /\ g.radeon
        intel(g) == g.intel
    IN IF has(intel) THEN S("Integrated GPU")
       ELSE IF has(nvidia) \/ has(amd_discrete) THEN S("Dedicated or Discrete GPU")
       ELSE None

\* The gpu_type the lines give, None when the code sets none.
GpuType(gpu_lines) ==
    LET has(p(_)) == \E i \in DOMAIN gpu_lines : p(gpu_lines[i])
        nvidia(g) == g.nvidia
        amd_discrete(g) == g.amd /\ g.radeon
        intel(g) == g.intel
    IN IF has(nvidia) \/ has(amd_discrete) THEN S("Dedicated or Discrete GPU")
       ELSE IF has(intel) THEN S("Integrated GPU")
       ELSE None

\* The loop that extracts the GPU models, from gpu_lines[i] on.
RECURSIVE GpuModels(_, _, _)
GpuModels(raw, gpu_lines, i) ==
    IF i > Len(gpu_lines) THEN raw
    ELSE LET g == gpu_lines[i]
             name(vendor) == S(IF g.bracket # "" THEN vendor \o " " \o g.bracket ELSE g.ctrl)
             r == IF g.ctrl = "" THEN raw
                  ELSE IF g.intel THEN Put(raw, "integrated_gpu_model", name("Intel"))
                  ELSE IF g.amd /\ g.vega THEN Put(raw, "integrated_gpu_model", name("AMD"))
                  ELSE IF g.nvidia THEN Put(raw, "dedicated_gpu_model", name("NVIDIA"))
                  ELSE IF g.amd /\ g.radeon /\ g.rx
                  THEN Put(raw, "dedicated_gpu_model", name("AMD"))
                  ELSE raw
         IN GpuModels(r, gpu_lines, i + 1)

\* detect_graphics also storing the first GPU's name as gpu_model.
detect_graphics_naming_gpu(raw, m) ==
    LET lspci == run_command(m.lspci)
        r0 == Put(raw, "lspci", S(lspci.text))
        gpu_lines == Get(lspci.found, "gpu_lines", <<>>)
    IN IF gpu_lines = <<>> THEN r0
       ELSE Put(GpuModels(
                    PutIf(Put(r0, "gpus", L(gpu_lines)), ~IsNone(GpuType(gpu_lines)),
                          "gpu_type", GpuType(gpu_lines)),
                    gpu_lines, 1),
                "gpu_model", S(gpu_lines[1].ctrl))

detect_graphics(raw, m) ==
    LET lspci == run_command(m.lspci)
        r0 == Put(raw, "lspci", S(lspci.text))
        gpu_lines == Get(lspci.found, "gpu_lines", <<>>)
    IN IF gpu_lines = <<>> THEN r0
       ELSE GpuModels(
                PutIf(Put(r0, "gpus", L(gpu_lines)), ~IsNone(GpuType(gpu_lines)),
                      "gpu_type", GpuType(gpu_lines)),
                gpu_lines, 1)

(***************************************************************************)
(* detect_storage.  A row of lsblk is [name, size, type, rota].  A size     *)
(* the pattern ([\d.]+)([KMGT]) matches at its start is kept as its number *)
(* in tenths and its unit; sizes in GB are kept in 1/10000 GB.             *)
(***************************************************************************)
\* re.match(r'([\d.]+)([KMGT])', size) on the sizes of the model; any other
\* size ("0B", "512B") has no match.
SizeTable ==
    ("16G" :> [value |-> 160, unit |-> "G"]) @@ ("31.9G" :> [value |-> 319, unit |-> "G"])
    @@ ("32G" :> [value |-> 320, unit |-> "G"]) @@ ("256G" :> [value |-> 2560, unit |-> "G"])
    @@ ("476.9G" :> [value |-> 4769, unit |-> "G"]) @@ ("1T" :> [value |-> 10, unit |-> "T"])
    @@ ("512M" :> [value |-> 5120, unit |-> "M"]) @@ ("64K" :> [value |-> 640, unit |-> "K"])

\* multipliers = {'K': 0.001, 'M': 0.001, 'G': 1, 'T': 1000}, in 1/10000 GB per tenth.
multipliers == ("K" :> 1) @@ ("M" :> 1) @@ ("G" :> 1000) @@ ("T" :> 1000000)

SizeMatches(size) == size \in DOMAIN SizeTable
size_gb(size) == SizeTable[size].value * multipliers[SizeTable[size].unit]

\* is_removable: the content of /sys/block/<name>/removable is "1".
is_removable(m, name) ==
    LET check == ShellRun(m.removable[name])
    IN ~check.raised /\ check.out.text = "1"

\* The skip of a disk wherever its size is below 32 GB or it is removable,
\* also when the size has no match.
SkipsDiskAlways(m, row) ==
    \/ is_removable(m, row.name)
    \/ SizeMatches(row.size) /\ size_gb(row.size) < 32 * 10000

\* The `continue` of the first loop: only a size that matches is looked at.
SkipsDisk(m, row) ==
    SizeMatches(row.size) /\ (is_removable(m, row.name) \/ size_gb(row.size) < 32 * 10000)

\* The first loop, from rows[i] on: the list storage_devices.
RECURSIVE StorageDevices(_, _, _)
StorageDevices(m, rows, i) ==
    IF i > Len(rows) THEN <<>>
    ELSE (IF rows[i].type = "disk" /\ ~SkipsDisk(m, rows[i])
          THEN <<[device |-> rows[i].name, size |-> rows[i].size,
                  type |-> IF rows[i].rota = "1" THEN "HDD" ELSE "SSD"]>>
          ELSE <<>>)
         \o StorageDevices(m, rows, i + 1)

\* The second loop with a T counted as 1024 GB.
TotalGbBinary(devices, type) ==
    Sum([i \in DOMAIN devices |->
            IF devices[i].type = type /\ SizeMatches(devices[i].size)
            THEN IF SizeTable[devices[i].size].unit = "T"
                 THEN SizeTable[devices[i].size].value * 1024 * 1000
                 ELSE size_gb(devices[i].size)
            ELSE 0])

\* The second loop: total_ssd_gb and total_hdd_gb.
TotalGb(devices, type) ==
    Sum([i \in DOMAIN devices |->
            IF devices[i].type = type /\ SizeMatches(devices[i].size)
            THEN size_gb(devices[i].size) ELSE 0])

\* The substrings of the lower-cased `lspci | grep storage...` output.
ControllerType(contains) ==
    IF contains \cap {"nvme", "non-volatile memory"} # {} THEN "NVMe"
    ELSE IF contains \cap {"emmc", "mmc"} # {} THEN "eMMC"
    ELSE IF "sata" \in contains THEN "SATA"
    ELSE IF "ahci" \in contains THEN "SATA (AHCI)"
    ELSE "Unknown"

detect_storage(raw, m) ==
    LET lsblk == run_command(m.lsblk)
        devices == StorageDevices(m, Get(lsblk.found, "rows", <<>>), 1)
        total_ssd_gb == TotalGb(devices, "SSD")
        total_hdd_gb == TotalGb(devices, "HDD")
        r0 == Update(raw, ("lsblk" :> S(lsblk.text)) @@ ("storage_devices" :> L(devices)))
        r1 == PutIf(r0, total_ssd_gb > 0, "ssd_capacity_gb", N(Round(total_ssd_gb, 10000)))
        r2 == PutIf(r1, total_hdd_gb > 0, "hdd_capacity_gb", N(Round(total_hdd_gb, 10000)))
        emmc == ShellRun(m.emmc)
        r3 == Put(r2, "has_emmc_storage",
                  B(~emmc.raised /\ Matched(emmc.out, "count")
                        /\ Get(emmc.out.found, "count", N(0)).v > 0))
        ctl == ShellRun(m.lspci_storage)
        r4 == IF ~ctl.raised /\ ctl.out.text # ""
              THEN Update(r3, ("lspci_storage" :> S(ctl.out.text))
                    @@ ("storage_controller_type" :>
                            S(ControllerType(Get(ctl.out.found, "contains", {})))))
              ELSE r3
        controller == GetOrNone(r4, "storage_controller_type")
    IN Put(r4, "storage_soldered_confidence",
           IF Truthy(GetOrNone(r4, "has_emmc_storage")) THEN S("confirmed_soldered")
           ELSE IF PyEq(controller, S("NVMe"))
           THEN S("unknown - M.2 SSD detected, could be socketed or soldered")
           ELSE IF PyEq(controller, S("SATA")) \/ PyEq(controller, S("SATA (AHCI)"))
           THEN S("likely_removable - SATA interface typically uses removable drives")
           ELSE IF total_ssd_gb = 0 /\ total_hdd_gb = 0 THEN S("no_storage_detected")
           ELSE S("unknown"))

(***************************************************************************)
(* detect_battery, detect_network, detect_usb_ports, detect_webcam.        *)
(* Energies are tenths of a Wh and voltages tenths of a V.                 *)
(***************************************************************************)
DefaultVoltage == 111

detect_battery(raw, m) ==
    LET upower == run_command(m.upower)
        r0 == Put(raw, "upower", S(upower.text))
        voltage == Get(upower.found, "voltage", DefaultVoltage)
        \* a voltage of 0 raises ZeroDivisionError, which the except clause swallows
        r1 == PutIf(r0, Matched(upower, "energy-full") /\ voltage # 0,
                    "battery_capacity_mah",
                    N(Round(Get(upower.found, "energy-full", 0) * 1000,
                            IF voltage = 0 THEN 1 ELSE voltage)))
        r2 == Put(r1, "acpi", S(run_command(m.acpi).text))
        sys == ShellRun(m.battery_sys).out
    IN PutIf(Put(r2, "battery_sys", S(sys.text)),
             Matched(sys, "POWER_SUPPLY_CHARGE_FULL"), "battery_capacity_mah",
             N(Round(Get(sys.found, "POWER_SUPPLY_CHARGE_FULL", 0), 1000)))

\* The output of `lspci | grep network...` names a wireless controller.
FindsWifi(m) == Matched(ShellRun(m.lspci_network).out, "wireless")

detect_network(raw, m) ==
    LET lspci_net == ShellRun(m.lspci_network).out
        r0 == Put(raw, "lspci_network", S(lspci_net.text))
        r1 == IF FindsWifi(m)
              THEN PutIf(Put(r0, "has_wifi", B(TRUE)),
                         Matched(run_command(m.iwconfig), "IEEE 802.11"),
                         "wifi_standard", S("802.11a/b/g/n/ac"))
              ELSE Put(r0, "has_wifi", B(FALSE))
        r2 == PutIf(r1, Matched(lspci_net, "ethernet"), "has_ethernet", B(TRUE))
    IN PutIf(r2, Matched(run_command(m.hciconfig), "hci0"), "has_bluetooth", B(TRUE))

\* usb_port_count = int(usb_ports) if usb_ports else 0; a text that is no
\* number raises ValueError, which the except clause swallows.
detect_usb_ports(raw, m) ==
    LET r0 == Put(raw, "lsusb", S(run_command(m.lsusb).text))
        usb_ports == ShellRun(m.usb_ports).out
    IN IF usb_ports.text = "" THEN Put(r0, "usb_port_count", N(0))
       ELSE PutIf(r0, Matched(usb_ports, "count"), "usb_port_count",
                  Get(usb_ports.found, "count", None))

detect_webcam(raw, m) ==
    LET video_devices == ShellRun(m.video_devices).out
    IN Put(raw, "has_webcam",
           B(Matched(video_devices, "count")
                /\ Get(video_devices.found, "count", N(0)).v > 0))

(***************************************************************************)
(* detect_all: the ten probes in their order, and the command lines each   *)
(* of them executes.                                                       *)
(***************************************************************************)
ProbeOrder ==
    <<"detect_system_info", "detect_processor", "detect_memory", "detect_display",
      "detect_graphics", "detect_storage", "detect_battery", "detect_network",
      "detect_usb_ports", "detect_webcam">>

\* detect_all with the storage probe called before the graphics probe.
ProbeAfterStorageFirst(probe) ==
    CASE probe = "detect_display" -> "detect_storage"
      [] probe = "detect_storage" -> "detect_graphics"
      [] probe = "detect_graphics" -> "detect_battery"
      [] probe = "detect_webcam" -> "map"
      [] OTHER ->
            ProbeOrder[(CHOOSE j \in DOMAIN ProbeOrder : ProbeOrder[j] = probe) + 1]

\* The step after a probe: the next probe, and map_to_bestbuy_fields after the last.
ProbeAfter(probe) ==
    LET i == CHOOSE j \in DOMAIN ProbeOrder : ProbeOrder[j] = probe
    IN IF i < Len(ProbeOrder) THEN ProbeOrder[i + 1] ELSE "map"

\* The probes with a detect_webcam that assigns a new bag
\* (self.raw_data = {'has_webcam': ...}) instead of the key.
ProbeIntoNewBag(probe, raw, m) ==
    CASE probe = "detect_system_info" -> detect_system_info(raw, m)
      [] probe = "detect_processor" -> detect_processor(raw, m)
      [] probe = "detect_memory" -> detect_memory(raw, m)
      [] probe = "detect_display" -> detect_display(raw, m)
      [] probe = "detect_graphics" -> detect_graphics(raw, m)
      [] probe = "detect_storage" -> detect_storage(raw, m)
      [] probe = "detect_battery" -> detect_battery(raw, m)
      [] probe = "detect_network" -> detect_network(raw, m)
      [] probe = "detect_usb_ports" -> detect_usb_ports(raw, m)
      [] probe = "detect_webcam" -> detect_webcam(EmptyDict, m)

Probe(probe, raw, m) ==
    CASE probe = "detect_system_info" -> detect_system_info(raw, m)
      [] probe = "detect_processor" -> detect_processor(raw, m)
      [] probe = "detect_memory" -> detect_memory(raw, m)
      [] probe = "detect_display" -> detect_display(raw, m)
      [] probe = "detect_graphics" -> detect_graphics(raw, m)
      [] probe = "detect_storage" -> detect_storage(raw, m)
      [] probe = "detect_battery" -> detect_battery(raw, m)
      [] probe = "detect_network" -> detect_network(raw, m)
      [] probe = "detect_usb_ports" -> detect_usb_ports(raw, m)
      [] probe = "detect_webcam" -> detect_webcam(raw, m)

\* The edid-decode command lines of the loop over the EDID files.
RECURSIVE EdidCommands(_, _, _)
EdidCommands(m, files, i) ==
    IF i > Len(files) THEN <<>>
    ELSE IF files[i] = "" THEN EdidCommands(m, files, i + 1)
    ELSE <<"sudo edid-decode " \o files[i]>>
            \o (IF run_command(m.edid_decode[files[i]]).text # "" THEN <<>>
                ELSE EdidCommands(m, files, i + 1))

\* The command lines a probe executes on machine m, in order.
Commands(probe, m) ==
    CASE probe = "detect_system_info" ->
            <<"sudo dmidecode -t system", "sudo dmidecode -t bios",
              "sudo dmidecode -t chassis">>
      [] probe = "detect_processor" -> <<"lscpu", "sudo dmidecode -t processor">>
      [] probe = "detect_memory" -> <<"sudo dmidecode -t memory", "cat /proc/meminfo">>
      [] probe = "detect_display" ->
            <<"xrandr", "find /sys/class/drm -name edid">>
                \o EdidCommands(m, EdidFiles(m), 1) \o <<"xinput list">>
      [] probe = "detect_graphics" -> <<"lspci">>
      [] probe = "detect_storage" ->
            LET rows == Get(run_command(m.lsblk).found, "rows", <<>>)
                disks == SelectSeq(rows, LAMBDA r : r.type = "disk")
            IN <<"lsblk -d -o NAME,SIZE,TYPE,ROTA">>
                \o [i \in DOMAIN disks |-> "cat /sys/block/" \o disks[i].name \o "/removable"]
                \o <<"ls /dev/mmcblk* 2>/dev/null | wc -l",
                     "lspci | grep -i 'storage\\|sata\\|nvme\\|mmc'">>
      [] probe = "detect_battery" ->
            <<"upower -i /org/freedesktop/UPower/devices/battery_BAT0", "acpi -V",
              "cat /sys/class/power_supply/BAT*/uevent">>
      [] probe = "detect_network" ->
            <<"lspci | grep -i 'network\\|ethernet\\|wireless\\|wi-fi'">>
                \o (IF FindsWifi(m) THEN <<"iwconfig">> ELSE <<>>) \o <<"hciconfig">>
      [] probe = "detect_usb_ports" ->
            <<"lsusb", "find /sys/bus/usb/devices/usb* -name 'product' | wc -l">>
      [] probe = "detect_webcam" -> <<"ls /dev/video* 2>/dev/null | wc -l">>

\* The keys a probe writes besides the raw output of its commands.
ParsedFields(probe) ==
    CASE probe = "detect_system_info" -> {f[1] : f \in SystemFields}
      [] probe = "detect_processor" ->
            {"cpu_model", "cpu_cores", "cpu_speed_mhz", "cpu_speed_ghz", "cpu_max_mhz",
             "cpu_max_ghz", "cpu_l3_cache"}
      [] probe = "detect_memory" ->
            {"ram_size_gb", "ram_type", "ram_speed", "max_ram_capacity_gb",
             "ram_slots_total", "ram_form_factor", "ram_soldered", "ram_slots_used",
             "ram_slots_available"}
      [] probe = "detect_display" ->
            {"screen_resolution", "screen_size_inches", "has_touchscreen"}
      [] probe = "detect_graphics" ->
            {"gpus", "gpu_type", "integrated_gpu_model", "dedicated_gpu_model"}
      [] probe = "detect_storage" ->
            {"storage_devices", "ssd_capacity_gb", "hdd_capacity_gb", "has_emmc_storage",
             "storage_controller_type", "storage_soldered_confidence"}
      [] probe = "detect_battery" -> {"battery_capacity_mah"}
      [] probe = "detect_network" ->
            {"has_wifi", "wifi_standard", "has_ethernet", "has_bluetooth"}
      [] probe = "detect_usb_ports" -> {"usb_port_count"}
      [] probe = "detect_webcam" -> {"has_webcam"}

\* The values the probes assign in their else and except branches.
Defaults ==
    ("ram_soldered" :> B(TRUE)) @@ ("ram_slots_total" :> N(0))
    @@ ("ram_slots_used" :> N(0)) @@ ("ram_slots_available" :> N(0))
    @@ ("has_touchscreen" :> B(FALSE)) @@ ("storage_devices" :> L(<<>>))
    @@ ("has_emmc_storage" :> B(FALSE))
    @@ ("storage_soldered_confidence" :> S("no_storage_detected"))
    @@ ("storage_controller_type" :> S("Unknown"))
    @@ ("has_wifi" :> B(FALSE)) @@ ("usb_port_count" :> N(0))
    @@ ("has_webcam" :> B(FALSE))

\* detect_all on machine m, from the probe ProbeOrder[i] on.
RECURSIVE DetectFrom(_, _, _)
DetectFrom(raw, m, i) ==
    IF i > Len(ProbeOrder) THEN raw
    ELSE DetectFrom(Probe(ProbeOrder[i], raw, m), m, i + 1)

RECURSIVE CommandsFrom(_, _)
CommandsFrom(m, i) ==
    IF i > Len(ProbeOrder) THEN <<>>
    ELSE Commands(ProbeOrder[i], m) \o CommandsFrom(m, i + 1)

(***************************************************************************)
(* The machines the detector runs on.                                      *)
(***************************************************************************)
Ok(text, found) == [outcome |-> "ok", out |-> [text |-> text, found |-> found]]
Failed(outcome) == [outcome |-> outcome, out |-> NoOutput]

\* A machine on which every command fails the same way.  The commands the
\* probes run without a timeout cannot time out; they are missing instead.
SilentMachine(outcome) ==
    [dmidecode_system |-> Failed(outcome), dmidecode_bios |-> Failed(outcome),
     dmidecode_chassis |-> Failed(outcome), lscpu |-> Failed(outcome),
     dmidecode_processor |-> Failed(outcome), dmidecode_memory |-> Failed(outcome),
     meminfo |-> Failed(outcome), xrandr |-> Failed(outcome),
     find_edid |-> Failed("missing"), edid_decode |-> [f \in {} |-> Failed(outcome)],
     xinput |-> Failed(outcome), lspci |-> Failed(outcome), lsblk |-> Failed(outcome),
     removable |-> [n \in {} |-> Failed(outcome)], emmc |-> Failed(outcome),
     lspci_storage |-> Failed(outcome), upower |-> Failed(outcome),
     acpi |-> Failed(outcome), battery_sys |-> Failed("missing"),
     lspci_network |-> Failed("missing"), iwconfig |-> Failed(outcome),
     hciconfig |-> Failed(outcome), lsusb |-> Failed(outcome),
     usb_ports |-> Failed("missing"), video_devices |-> Failed("missing")]

\* A machine on which every command prints something no pattern matches.
NoMatchMachine ==
    [c \in DOMAIN SilentMachine("missing") |->
        IF c \in {"edid_decode", "removable"} THEN SilentMachine("missing")[c]
        ELSE IF c = "find_edid" THEN Ok("", EmptyDict)
        ELSE Ok("?", EmptyDict)]

\* A laptop with an Intel and an NVIDIA GPU, an internal SSD and a USB stick.
Laptop(model, ram) ==
    [dmidecode_system |->
        Ok("System Information", ("Manufacturer" :> S("Dell")) @@ ("Product Name" :> S(model))
                @@ ("SKU Number" :> S("0A1B"))),
     dmidecode_bios |-> Ok("BIOS Information", EmptyDict),
     dmidecode_chassis |-> Ok("Chassis Information", EmptyDict),
     lscpu |->
        Ok("Architecture: x86_64", ("Model name" :> S("Intel Core i5-8250U"))
                @@ ("Core(s) per socket" :> N(4)) @@ ("Socket(s)" :> N(1))
                @@ ("CPU max MHz" :> N(3400))
                @@ ("L3 cache" :> [size |-> "6", unit |-> "MiB"])),
     dmidecode_processor |-> Ok("Processor Information", EmptyDict),
     dmidecode_memory |->
        Ok("Memory Device",
           ("sections" :> <<[device |-> TRUE, no_module |-> FALSE, size |-> <<ram>>],
                            [device |-> TRUE, no_module |-> TRUE, size |-> <<>>]>>)
                @@ ("Type" :> S("DDR4")) @@ ("Speed" :> N(2400))
                @@ ("Number Of Devices" :> N(2)) @@ ("Form Factor" :> <<"SODIMM">>)
                @@ ("Size: No Module Installed" :> 1)),
     meminfo |-> Ok("MemTotal", "MemTotal" :> N(ram * KbPerGb - 300000)),
     xrandr |->
        Ok("Screen 0", ("resolution" :> [width |-> "1920", height |-> "1080"])
                @@ ("mm" :> [width |-> 310, height |-> 174])),
     find_edid |-> Ok("/sys/class/drm/card0-eDP-1/edid", "files" :> <<"card0-eDP-1">>),
     edid_decode |->
        "card0-eDP-1" :> Ok("EDID version: 1.4", EmptyDict),
     xinput |-> Ok("Virtual core pointer", "touch" :> TRUE),
     lspci |-> Ok("00:02.0 VGA", "gpu_lines" :> <<IntelLine, NvidiaLine>>),
     lsblk |->
        Ok("NAME SIZE TYPE ROTA",
           "rows" :> <<[name |-> "nvme0n1", size |-> "256G", type |-> "disk", rota |-> "0"],
                       [name |-> "sdb", size |-> "16G", type |-> "disk", rota |-> "1"],
                       [name |-> "sr0", size |-> "1T", type |-> "rom", rota |-> "1"]>>),
     removable |-> ("nvme0n1" :> Ok("0", EmptyDict)) @@ ("sdb" :> Ok("1", EmptyDict)),
     emmc |-> Ok("0", "count" :> N(0)),
     lspci_storage |-> Ok("Non-Volatile memory controller", "contains" :> {"non-volatile memory"}),
     upower |-> Ok("native-path: BAT0", ("energy-full" :> 450) @@ ("voltage" :> 114)),
     acpi |-> Ok("Battery 0", EmptyDict),
     battery_sys |-> Ok("POWER_SUPPLY_NAME=BAT0", "POWER_SUPPLY_CHARGE_FULL" :> 3900000),
     lspci_network |-> Ok("Network controller", ("wireless" :> TRUE) @@ ("ethernet" :> TRUE)),
     iwconfig |-> Ok("wlan0", "IEEE 802.11" :> TRUE),
     hciconfig |-> Ok("hci0", "hci0" :> TRUE),
     lsusb |-> Ok("Bus 001", EmptyDict),
     usb_ports |-> Ok("4", "count" :> N(4)),
     video_devices |-> Ok("2", "count" :> N(2))]

Machines ==
    {SilentMachine("missing"), Laptop("Latitude 5490", 8), Laptop("Latitude 7490", 8),
     Laptop("Latitude 5490", 16)}

(***************************************************************************)
(* What the probes and the operator can produce.                           *)
(***************************************************************************)
MaxRuns == 2
\* The largest count the stock keeping reaches.
MaxStock == 1

\* Raw bags detect_all leaves behind: a machine on which every probe found
\* nothing, and two models of one brand with an Intel and an NVIDIA GPU.
BlankBag == DetectFrom(EmptyDict, SilentMachine("missing"), 1)

LaptopBag(model, ram) == DetectFrom(EmptyDict, Laptop(model, ram), 1)

ProbeBags == {DetectFrom(EmptyDict, m, 1) : m \in Machines}

\* What the operator types at the seven prompts.
Answers ==
    { [screen |-> "", keyboard |-> "", backlit |-> "", touchscreen |-> "",
       convertible |-> "", color |-> "", condition |-> ""],
      [screen |-> "15.6", keyboard |-> "2", backlit |-> "y", touchscreen |-> "y",
       convertible |-> "y", color |-> "Black", condition |-> "3"] }

(***************************************************************************)
(* State.                                                                  *)
(***************************************************************************)
VARIABLES
    pc,                     \* where main is
    runs,                   \* runs of main started so far
    args,                   \* the parsed command line: [upload |-> BOOLEAN]
    raw_data,               \* detector.raw_data
    bestbuy_data,           \* detector.bestbuy_data
    files,                  \* the files save_results wrote in this run, in order
    imported,               \* the uploader module was imported in this run
    secrets_file,           \* the credentials file as load_secrets found it
    client,                 \* create_supabase_client returned a client in this run
    laptop_models,          \* the remote tables
    laptop_hardware_data,
    laptop_variants,
    laptops,
    laptop_manual_fields,
    next_id,                \* the next id the database assigns
    calls,                  \* the remote calls of this run, in order
    model_id,               \* upload_to_database's locals
    variant_id,
    shop_sku,
    result,                 \* what upload_to_database returned
    raised,                 \* the exception main caught, "" when none
    store_at_call,          \* the tables when upload_to_database was entered
    last_upload,            \* the latest finished call of upload_to_database
    prev_upload,            \* last_upload when the current call was entered
    probed,                 \* the probes detect_all has run in this run, in order
    commands,               \* the command lines the probes executed, in order
    prompted                \* the prompts shown in this run, each with its answer

store_vars ==
    <<laptop_models, laptop_hardware_data, laptop_variants, laptops, laptop_manual_fields,
      next_id>>
detector_vars == <<raw_data, bestbuy_data>>
local_vars == <<model_id, variant_id, shop_sku>>
history_vars == <<store_at_call, last_upload, prev_upload>>
trace_vars == <<probed, commands, prompted>>
vars ==
    <<pc, runs, args, raw_data, bestbuy_data, files, imported, secrets_file, client,
      laptop_models, laptop_hardware_data, laptop_variants, laptops, laptop_manual_fields,
      next_id, calls, model_id, variant_id, shop_sku, result, raised, store_at_call,
      last_upload, prev_upload, probed, commands, prompted>>

Store ==
    [laptop_models |-> laptop_models,
     laptop_hardware_data |-> laptop_hardware_data,
     laptop_variants |-> laptop_variants,
     laptops |-> laptops,
     laptop_manual_fields |-> laptop_manual_fields]

EmptyStore ==
    [laptop_models |-> {}, laptop_hardware_data |-> {}, laptop_variants |-> {},
     laptops |-> {}, laptop_manual_fields |-> {}]

NoResult == [model_id |-> None, variant_id |-> None, shop_sku |-> None, status |-> ""]
NoUpload == [called |-> FALSE, raw |-> EmptyDict, bb |-> EmptyDict, calls |-> <<>>,
             status |-> ""]
UnreadFile == [exists |-> FALSE, keys |-> {"<unread>"}]

\* No run of main has touched anything but pc and the raw bag.
Fresh ==
    /\ args = [upload |-> FALSE]
    /\ bestbuy_data = EmptyDict
    /\ files = <<>>
    /\ imported = FALSE
    /\ secrets_file = UnreadFile
    /\ client = FALSE
    /\ laptop_models = {}
    /\ laptop_hardware_data = {}
    /\ laptop_variants = {}
    /\ laptops = {}
    /\ laptop_manual_fields = {}
    /\ next_id = 1
    /\ calls = <<>>
    /\ model_id = None
    /\ variant_id = None
    /\ shop_sku = None
    /\ result = NoResult
    /\ raised = ""
    /\ store_at_call = EmptyStore
    /\ last_upload = NoUpload
    /\ prev_upload = NoUpload
    /\ probed = <<>>
    /\ commands = <<>>
    /\ prompted = <<>>

Init ==
    /\ pc = "start"
    /\ runs = 0
    /\ raw_data = EmptyDict
    /\ Fresh

(***************************************************************************)
(* main, up to persistence.                                                *)
(***************************************************************************)
\* save_results without the second file.
save_results_first_file_only(raw, bb) ==
    <<[name |-> "laptop_hardware_data.json", raw_hardware_data |-> raw, bestbuy_fields |-> bb]>>

\* The files one call of save_results writes.
save_results(raw, bb) ==
    <<[name |-> "laptop_hardware_data.json", raw_hardware_data |-> raw, bestbuy_fields |-> bb],
      [name |-> "laptop_hardware_data_bestbuy_only.json", raw_hardware_data |-> EmptyDict,
       bestbuy_fields |-> bb]>>

\* main parses the command line and constructs a fresh HardwareDetector.
main_start ==
    /\ pc \in {"start", "end"}
    /\ runs < MaxRuns
    /\ \E upload \in BOOLEAN : args' = [upload |-> upload]
    /\ runs' = runs + 1
    /\ pc' = "detect"
    /\ raw_data' = EmptyDict
    /\ bestbuy_data' = EmptyDict
    /\ files' = <<>>
    /\ imported' = FALSE
    /\ secrets_file' = UnreadFile
    /\ client' = FALSE
    /\ calls' = <<>>
    /\ model_id' = None
    /\ variant_id' = None
    /\ shop_sku' = None
    /\ result' = NoResult
    /\ raised' = ""
    /\ probed' = <<>>
    /\ commands' = <<>>
    /\ prompted' = <<>>
    /\ UNCHANGED <<store_vars, history_vars>>

\* detect_all: the ten probes fill the raw bag.
detect_all ==
    /\ pc = "detect"
    /\ \E m \in Machines :
        /\ raw_data' = DetectFrom(raw_data, m, 1)
        /\ commands' = commands \o CommandsFrom(m, 1)
    /\ probed' = probed \o ProbeOrder
    /\ pc' = "map"
    /\ UNCHANGED <<runs, args, bestbuy_data, files, imported, secrets_file, client,
                   store_vars, calls, local_vars, result, raised, history_vars, prompted>>

MapStep ==
    /\ pc = "map"
    /\ bestbuy_data' = map_to_bestbuy_fields(raw_data)
    /\ pc' = "prompt"
    /\ UNCHANGED <<runs, args, raw_data, files, imported, secrets_file, client,
                   store_vars, calls, local_vars, result, raised, history_vars>>
    /\ UNCHANGED trace_vars

PromptWith(answers) ==
    /\ pc = "prompt"
    /\ \E ans \in answers :
        /\ raw_data' = PromptRaw(raw_data, ans)
        /\ bestbuy_data' = PromptBestbuy(bestbuy_data, ans)
        /\ prompted' = prompted \o Prompts(raw_data, ans)
    /\ pc' = "persist"
    /\ UNCHANGED <<probed, commands>>
    /\ UNCHANGED <<runs, args, files, imported, secrets_file, client,
                   store_vars, calls, local_vars, result, raised, history_vars>>

PromptStep == PromptWith(Answers)

\* Default mode: no --upload, main saves the JSON files.
SaveLocal ==
    /\ pc = "persist"
    /\ ~args.upload
    /\ files' = files \o save_results(raw_data, bestbuy_data)
    /\ pc' = "end"
    /\ UNCHANGED <<runs, args, detector_vars, imported, secrets_file, client,
                   store_vars, calls, local_vars, result, raised, history_vars>>
    /\ UNCHANGED trace_vars

\* --upload: the import of supabase_uploader, which fails when the supabase
\* package is not installed; main then saves the JSON files.
ImportUploader ==
    /\ pc = "persist"
    /\ args.upload
    /\ \E ok \in BOOLEAN :
        IF ok
        THEN /\ imported' = TRUE
             /\ pc' = "load_secrets"
             /\ UNCHANGED <<files, raised>>
        ELSE /\ raised' = "ImportError"
             /\ files' = files \o save_results(raw_data, bestbuy_data)
             /\ pc' = "end"
             /\ UNCHANGED imported
    /\ UNCHANGED <<runs, args, detector_vars, secrets_file, client,
                   store_vars, calls, local_vars, result, history_vars>>
    /\ UNCHANGED trace_vars

\* secrets = load_secrets(args.secrets), and main's handlers of what it raises.
LoadSecrets ==
    /\ pc = "load_secrets"
    /\ \E file \in SecretsFiles :
        /\ secrets_file' = file
        /\ IF load_secrets(file) = ""
           THEN /\ pc' = "connect"
                /\ UNCHANGED <<files, raised>>
           ELSE /\ raised' = load_secrets(file)
                /\ files' = files \o save_results(raw_data, bestbuy_data)
                /\ pc' = "end"
    /\ UNCHANGED <<runs, args, detector_vars, imported, client,
                   store_vars, calls, local_vars, result, history_vars>>
    /\ UNCHANGED trace_vars

\* supabase = create_supabase_client(secrets); create_client may raise.
CreateClient ==
    /\ pc = "connect"
    /\ \E ok \in BOOLEAN :
        IF ok
        THEN /\ client' = TRUE
             /\ pc' = "upload"
             /\ UNCHANGED <<files, raised>>
        ELSE /\ raised' = "Exception"
             /\ files' = files \o save_results(raw_data, bestbuy_data)
             /\ pc' = "end"
             /\ UNCHANGED client
    /\ UNCHANGED <<runs, args, detector_vars, imported, secrets_file,
                   store_vars, calls, local_vars, result, history_vars>>
    /\ UNCHANGED trace_vars

(***************************************************************************)
(* upload_to_database, one action per remote call.  A remote call succeeds *)
(* or raises; what it raises leaves upload_to_database (each except clause *)
(* re-raises) and is caught by main, which saves the JSON files.           *)
(***************************************************************************)
\* The steps with the variant created before the hardware detail.
StepAfterVariantFirst(step) ==
    CASE step = "model_query" -> "model_insert"
      [] step = "model_insert" -> "variant_query"
      [] step = "variant_query" -> "variant_insert"
      [] step = "variant_insert" -> "hardware_upsert"
      [] step = "hardware_upsert" -> "inventory_upsert"
      [] step = "inventory_upsert" -> "manual_fields"
      [] step = "manual_fields" -> "end"

\* The order of the steps: the step upload_to_database goes to when a step is done
\* (after a query, when it found no row).
StepAfter(step) ==
    CASE step = "model_query" -> "model_insert"
      [] step = "model_insert" -> "hardware_upsert"
      [] step = "hardware_upsert" -> "variant_query"
      [] step = "variant_query" -> "variant_insert"
      [] step = "variant_insert" -> "inventory_upsert"
      [] step = "inventory_upsert" -> "manual_fields"
      [] step = "manual_fields" -> "end"

\* The steps without the early return: a found model is carried on to step 2.
StepWhenFoundNoReturn(step) ==
    CASE step = "model_query" -> StepAfter("model_insert")
      [] step = "variant_query" -> StepAfter("variant_insert")

\* The step upload_to_database goes to when a query found a row: the early
\* return for a model, the inventory step for a variant.
StepWhenFound(step) ==
    CASE step = "model_query" -> "end"
      [] step = "variant_query" -> StepAfter("variant_insert")

Finished(cs, status) ==
    [called |-> TRUE, raw |-> raw_data, bb |-> bestbuy_data, calls |-> cs, status |-> status]

\* The early return when the model exists, and the return at the end.
ExistsResult(mid) ==
    [model_id |-> mid, variant_id |-> None, shop_sku |-> None, status |-> "exists"]
CreatedResult(mid, vid, sku) ==
    [model_id |-> mid, variant_id |-> vid, shop_sku |-> sku, status |-> "created"]

\* A remote call that raises is issued again.
RaiseAndRetry(call) ==
    /\ calls' = Append(calls, call)
    /\ UNCHANGED <<raised, files, last_upload, pc>>

\* A remote call raises: nothing is written, main's handler runs.
Raise(call) ==
    /\ calls' = Append(calls, call)
    /\ raised' = "Exception"
    /\ files' = files \o save_results(raw_data, bestbuy_data)
    /\ last_upload' = Finished(Append(calls, call), "raised")
    /\ pc' = "end"

\* main calls upload_to_database(supabase, raw_data, bestbuy_data).
upload_to_database ==
    /\ pc = "upload"
    /\ store_at_call' = Store
    /\ prev_upload' = last_upload
    /\ pc' = "model_query"
    /\ UNCHANGED <<runs, args, detector_vars, files, imported, secrets_file, client,
                   store_vars, calls, local_vars, result, raised, last_upload>>
    /\ UNCHANGED trace_vars

\* Step 1, the existence query, and the early return when it finds a row.
ModelQuery ==
    /\ pc = "model_query"
    /\ \E ok \in BOOLEAN :
        IF ~ok
        THEN /\ Raise("laptop_models.select")
             /\ UNCHANGED <<model_id, result>>
        ELSE LET found == ExistingModels(laptop_models, model_data(raw_data, bestbuy_data))
             IN /\ calls' = Append(calls, "laptop_models.select")
                /\ UNCHANGED <<raised, files>>
                /\ IF found # {}
                   THEN \E m \in found :
                        /\ model_id' = N(m.id)
                        /\ result' = ExistsResult(N(m.id))
                        /\ last_upload' =
                            Finished(Append(calls, "laptop_models.select"), "exists")
                        /\ pc' = StepWhenFound("model_query")
                   ELSE /\ pc' = StepAfter("model_query")
                        /\ UNCHANGED <<model_id, result, last_upload>>
    /\ UNCHANGED <<runs, args, detector_vars, imported, secrets_file, client, store_vars,
                   variant_id, shop_sku, store_at_call, prev_upload>>
    /\ UNCHANGED trace_vars

\* Step 1, the insert of the new model.
ModelInsert ==
    /\ pc = "model_insert"
    /\ \E ok \in BOOLEAN :
        IF ~ok
        THEN /\ Raise("laptop_models.insert")
             /\ UNCHANGED <<laptop_models, next_id, model_id>>
        ELSE /\ calls' = Append(calls, "laptop_models.insert")
             /\ laptop_models' = laptop_models
                    \cup {ModelRow(model_data(raw_data, bestbuy_data), next_id)}
             /\ next_id' = next_id + 1
             /\ model_id' = N(next_id)
             /\ pc' = StepAfter("model_insert")
             /\ UNCHANGED <<raised, files, last_upload>>
    /\ UNCHANGED <<runs, args, detector_vars, imported, secrets_file, client,
                   laptop_hardware_data, laptop_variants, laptops, laptop_manual_fields,
                   variant_id, shop_sku, result, store_at_call, prev_upload>>
    /\ UNCHANGED trace_vars

\* Step 2, the upsert of the hardware detail.
HardwareUpsert ==
    /\ pc = "hardware_upsert"
    /\ \E ok \in BOOLEAN :
        IF ~ok
        THEN /\ Raise("laptop_hardware_data.upsert")
             /\ UNCHANGED laptop_hardware_data
        ELSE /\ calls' = Append(calls, "laptop_hardware_data.upsert")
             /\ laptop_hardware_data' =
                    Upsert(laptop_hardware_data,
                           hardware_data(raw_data, bestbuy_data, model_id.v), "model_id")
             /\ pc' = StepAfter("hardware_upsert")
             /\ UNCHANGED <<raised, files, last_upload>>
    /\ UNCHANGED <<runs, args, detector_vars, imported, secrets_file, client,
                   laptop_models, laptop_variants, laptops, laptop_manual_fields, next_id,
                   local_vars, result, store_at_call, prev_upload>>
    /\ UNCHANGED trace_vars

\* Step 3, the existence query of the variant.
VariantQuery ==
    /\ pc = "variant_query"
    /\ \E ok \in BOOLEAN :
        IF ~ok
        THEN /\ Raise("laptop_variants.select")
             /\ UNCHANGED <<variant_id, shop_sku>>
        ELSE LET found == ExistingVariants(laptop_variants, variant_data(raw_data, model_id.v))
             IN /\ calls' = Append(calls, "laptop_variants.select")
                /\ UNCHANGED <<raised, files, last_upload>>
                /\ IF found # {}
                   THEN \E v \in found :
                        /\ variant_id' = N(v.id)
                        /\ shop_sku' = v.shop_sku
                        /\ pc' = StepWhenFound("variant_query")
                   ELSE /\ pc' = StepAfter("variant_query")
                        /\ UNCHANGED <<variant_id, shop_sku>>
    /\ UNCHANGED <<runs, args, detector_vars, imported, secrets_file, client, store_vars,
                   model_id, result, store_at_call, prev_upload>>
    /\ UNCHANGED trace_vars

\* Step 3, the insert of the new variant.
VariantInsert ==
    /\ pc = "variant_insert"
    /\ \E ok \in BOOLEAN :
        IF ~ok
        THEN /\ Raise("laptop_variants.insert")
             /\ UNCHANGED <<laptop_variants, next_id, variant_id, shop_sku>>
        ELSE LET row == VariantRow(variant_data(raw_data, model_id.v), next_id)
             IN /\ calls' = Append(calls, "laptop_variants.insert")
                /\ laptop_variants' = laptop_variants \cup {row}
                /\ next_id' = next_id + 1
                /\ variant_id' = N(row.id)
                /\ shop_sku' = row.shop_sku
                /\ pc' = StepAfter("variant_insert")
                /\ UNCHANGED <<raised, files, last_upload>>
    /\ UNCHANGED <<runs, args, detector_vars, imported, secrets_file, client,
                   laptop_models, laptop_hardware_data, laptops, laptop_manual_fields,
                   model_id, result, store_at_call, prev_upload>>
    /\ UNCHANGED trace_vars

\* Step 4, the upsert of the inventory record.
InventoryUpsert ==
    /\ pc = "inventory_upsert"
    /\ \E ok \in BOOLEAN :
        IF ~ok
        THEN /\ Raise("laptops.upsert")
             /\ UNCHANGED laptops
        ELSE /\ calls' = Append(calls, "laptops.upsert")
             /\ laptops' = Upsert(laptops, inventory_data(model_id.v), "model_id")
             /\ pc' = StepAfter("inventory_upsert")
             /\ UNCHANGED <<raised, files, last_upload>>
    /\ UNCHANGED <<runs, args, detector_vars, imported, secrets_file, client,
                   laptop_models, laptop_hardware_data, laptop_variants,
                   laptop_manual_fields, next_id, local_vars, result, store_at_call,
                   prev_upload>>
    /\ UNCHANGED trace_vars

\* Step 5, the upsert of the manual fields when there are any, and the return.
ManualFieldsUpsert ==
    /\ pc = "manual_fields"
    /\ LET row == manual_fields_data(bestbuy_data, variant_id.v)
           writes == Cardinality(DOMAIN row) > 1
           cs == IF writes THEN Append(calls, "laptop_manual_fields.upsert") ELSE calls
       IN \E ok \in BOOLEAN :
            IF writes /\ ~ok
            THEN /\ Raise("laptop_manual_fields.upsert")
                 /\ UNCHANGED <<laptop_manual_fields, result>>
            ELSE /\ calls' = cs
                 /\ laptop_manual_fields' =
                        IF writes THEN Upsert(laptop_manual_fields, row, "variant_id")
                        ELSE laptop_manual_fields
                 /\ result' = CreatedResult(model_id, variant_id, shop_sku)
                 /\ last_upload' = Finished(cs, "created")
                 /\ pc' = StepAfter("manual_fields")
                 /\ UNCHANGED <<raised, files>>
    /\ UNCHANGED <<runs, args, detector_vars, imported, secrets_file, client,
                   laptop_models, laptop_hardware_data, laptop_variants, laptops, next_id,
                   local_vars, store_at_call, prev_upload>>
    /\ UNCHANGED trace_vars

\* The shop's stock keeping, another client of the same database: it counts a
\* laptop of some model into the inventory.  upload_to_database never reads the
\* counter; the model lets the stock change while a run is detecting.
StockChanged ==
    /\ pc = "detect"
    /\ \E l \in laptops :
        /\ l.inventory_count.v < MaxStock
        /\ laptops' = (laptops \ {l})
                \cup {[l EXCEPT !.inventory_count = N(l.inventory_count.v + 1)]}
    /\ UNCHANGED <<pc, runs, args, detector_vars, files, imported, secrets_file, client,
                   laptop_models, laptop_hardware_data, laptop_variants,
                   laptop_manual_fields, next_id, calls, local_vars, result, raised,
                   history_vars>>
    /\ UNCHANGED trace_vars

Next ==
    \/ main_start
    \/ detect_all
    \/ MapStep
    \/ PromptStep
    \/ SaveLocal
    \/ ImportUploader
    \/ LoadSecrets
    \/ CreateClient
    \/ upload_to_database
    \/ ModelQuery
    \/ ModelInsert
    \/ HardwareUpsert
    \/ VariantQuery
    \/ VariantInsert
    \/ InventoryUpsert
    \/ ManualFieldsUpsert
    \/ StockChanged

Spec == Init /\ [][Next]_vars

(***************************************************************************)
(* The mapping and the prompts on their own, over every raw bag built from *)
(* the keys the field table reads: each key missing, falsy or set.         *)
(***************************************************************************)
Presence == {"missing", "falsy", "set"}

StringBag(p) ==
    IF p = "missing" THEN EmptyDict
    ELSE [k \in {"brand", "model", "cpu_model", "cpu_l3_cache", "screen_resolution",
                 "gpu_model", "gpu_type"} |-> IF p = "falsy" THEN S("") ELSE S("x")]

NumberBag(p) ==
    IF p = "missing" THEN EmptyDict
    ELSE [k \in {"cpu_cores", "ram_size_gb", "ssd_capacity_gb", "hdd_capacity_gb",
                 "screen_size_inches", "battery_capacity_mah"} |->
            IF p = "falsy" THEN N(0) ELSE N(140)]

SpeedBags ==
    {Update(a, b) :
        a \in {EmptyDict, "cpu_max_ghz" :> N(0), "cpu_max_ghz" :> N(34)},
        b \in {EmptyDict, "cpu_speed_ghz" :> N(24)}}

TouchscreenBags ==
    {EmptyDict, "has_touchscreen" :> None, "has_touchscreen" :> B(FALSE),
     "has_touchscreen" :> B(TRUE)}

FlagBag(p) ==
    IF p = "missing" THEN EmptyDict
    ELSE [k \in {"has_wifi", "has_bluetooth", "has_ethernet", "has_webcam"} |->
            B(p = "set")]

TextBags ==
    {EmptyDict,
     ("sku" :> S("0A1B")) @@ ("ram_type" :> S("DDR4")) @@ ("ram_speed" :> S("2400 MHz"))}

MapperBags ==
    {Update(Update(Update(Update(Update(StringBag(ps), NumberBag(pn)), sp), tb),
                   FlagBag(pf)), tx) :
        ps \in Presence, pn \in Presence, sp \in SpeedBags, tb \in TouchscreenBags,
        pf \in Presence, tx \in TextBags}

AllAnswers ==
    {[screen |-> sc, keyboard |-> ch, backlit |-> yn, touchscreen |-> ts,
      convertible |-> yn, color |-> co, condition |-> ch] :
        sc \in {"", "15.6", "0"}, ch \in {"", "2"}, yn \in {"y", "n"},
        ts \in {"y", "n"}, co \in {"", "Black"}}

InitMapper ==
    /\ pc = "map"
    /\ runs = 1
    /\ raw_data \in MapperBags
    /\ Fresh

PromptAnything == PromptWith(AllAnswers)

\* map_to_bestbuy_fields merging its result into the attribute set it finds.
MapAgainMerging ==
    /\ pc = "persist"
    /\ bestbuy_data' = Update(bestbuy_data, map_to_bestbuy_fields(raw_data))
    /\ pc' = "mapped"
    /\ UNCHANGED <<runs, args, raw_data, files, imported, secrets_file, client,
                   store_vars, calls, local_vars, result, raised, history_vars>>
    /\ UNCHANGED trace_vars

\* map_to_bestbuy_fields called once more on the detector, after the prompts
\* have added their attributes.
MapAgain ==
    /\ pc = "persist"
    /\ bestbuy_data' = map_to_bestbuy_fields(raw_data)
    /\ pc' = "mapped"
    /\ UNCHANGED <<runs, args, raw_data, files, imported, secrets_file, client,
                   store_vars, calls, local_vars, result, raised, history_vars>>
    /\ UNCHANGED trace_vars

NextMapper ==
    \/ MapStep
    \/ PromptAnything
    \/ MapAgain

SpecMapper == InitMapper /\ [][NextMapper]_vars

(***************************************************************************)
(* A run of main in the default mode with detect_all taken probe by probe: *)
(* on every probe each command is missing, times out, prints something     *)
(* without a match or prints what the laptop's does.                       *)
(***************************************************************************)
DetectMachines ==
    {SilentMachine("missing"), SilentMachine("timeout"), NoMatchMachine,
     Laptop("Latitude 5490", 8)}

\* One probe of detect_all: the one pc names.
RunProbe(machines) ==
    /\ pc \in {ProbeOrder[i] : i \in DOMAIN ProbeOrder}
    /\ \E m \in machines :
        /\ raw_data' = Probe(pc, raw_data, m)
        /\ commands' = commands \o Commands(pc, m)
    /\ probed' = Append(probed, pc)
    /\ pc' = ProbeAfter(pc)
    /\ UNCHANGED <<runs, args, bestbuy_data, files, imported, secrets_file, client,
                   store_vars, calls, local_vars, result, raised, history_vars, prompted>>

InitDetect ==
    /\ pc = ProbeOrder[1]
    /\ runs = 1
    /\ raw_data = EmptyDict
    /\ Fresh

ProbeStep == RunProbe(DetectMachines)

NextDetect ==
    \/ ProbeStep
    \/ MapStep
    \/ PromptStep
    \/ SaveLocal

SpecDetect == InitDetect /\ [][NextDetect]_vars

\* detect_all alone.  It is straight-line code and every command it runs
\* returns or raises, so a probe that is reached is run.
SpecDetectAll == InitDetect /\ [][ProbeStep]_vars /\ WF_vars(ProbeStep)

(***************************************************************************)
(* One probe alone, on an empty raw bag, over the outputs its commands can *)
(* print: detect_memory over MemTotal values, detect_graphics over lists   *)
(* of GPU lines, detect_storage over lists of lsblk rows.                  *)
(***************************************************************************)
\* The lines by the substrings they contain.
GpuLineKinds ==
    [intel : BOOLEAN, nvidia : BOOLEAN, amd : BOOLEAN, radeon : BOOLEAN, vega : BOOLEAN,
     rx : BOOLEAN, igfx : {FALSE}, bracket : {""}, ctrl : {"Display controller"}]

\* The machines a probe is run on.
\*   L3 cache:   absent, or one of four sizes in KiB, MiB or GiB
\*   memory:     dmidecode failing, or listing no module or modules of 8 and
\*               4 GB; /proc/meminfo failing, without MemTotal, or with it
\*   MemTotal:   0, 1, 3, 5, 7.5, 7.63, 10, 15.5, 20, 40, 255 and 300 GB in kB
\*   display:    xrandr and the EDID each without a size, with 0 x 0, or with
\*               the size of a 14 inch panel; one or two EDID files
\*   gpu_lines:  one line of any kind, or a usual line and one of any kind
\*   rows:       a first disk of any size, a second one of three sizes
ProbeMachines(probe) ==
    LET MemTotal ==
            {0, KbPerGb, 3 * KbPerGb, 5 * KbPerGb, 7864320, 8000000, 10 * KbPerGb,
             16252928, 20 * KbPerGb, 40 * KbPerGb, 255 * KbPerGb, 300 * KbPerGb}
        dmidecode_memory ==
            {Failed("missing"), Ok("?", EmptyDict),
             Ok("Memory Device",
                "sections" :> <<[device |-> TRUE, no_module |-> TRUE, size |-> <<>>],
                                [device |-> FALSE, no_module |-> FALSE, size |-> <<4>>]>>),
             Ok("Memory Device",
                "sections" :> <<[device |-> TRUE, no_module |-> FALSE, size |-> <<8>>],
                                [device |-> TRUE, no_module |-> FALSE, size |-> <<4>>]>>)}
        gpu_lines ==
            {<<g>> : g \in GpuLineKinds}
            \cup {<<g, h>> : g \in {IntelLine, NvidiaLine, VegaLine}, h \in GpuLineKinds}
        row(name, sizes) ==
            {[name |-> name, size |-> sz, type |-> "disk", rota |-> ro] :
                sz \in sizes, ro \in {"0", "1"}}
        first == row("sda", DOMAIN SizeTable \cup {"0B"})
        second == row("sdb", {"256G", "1T", "0B"})
        rows == {<<>>} \cup {<<a>> : a \in first} \cup {<<a, b>> : a \in first, b \in second}
    IN CASE probe = "detect_processor" ->
            {NoMatchMachine, SilentMachine("timeout"), Laptop("Latitude 5490", 8)}
            \cup {[NoMatchMachine EXCEPT
                        !.lscpu = Ok("Architecture: x86_64",
                                     ("Model name" :> S("AMD Ryzen 5 3500U"))
                                        @@ ("L3 cache" :> [size |-> sz, unit |-> un]))] :
                    sz \in {"4", "6", "1.5", "512"}, un \in {"KiB", "MiB", "GiB"}}
         [] probe = "detect_memory" ->
            {NoMatchMachine, Laptop("Latitude 5490", 8)}
            \cup {[NoMatchMachine EXCEPT !.meminfo = mem, !.dmidecode_memory = dmi] :
                    mem \in {Failed("timeout"), Ok("?", EmptyDict)}
                            \cup {Ok("MemTotal", "MemTotal" :> N(kb)) : kb \in MemTotal},
                    dmi \in dmidecode_memory}
         [] probe = "detect_display" ->
            {NoMatchMachine, SilentMachine("timeout"), Laptop("Latitude 5490", 8)}
            \cup {[NoMatchMachine EXCEPT
                        !.xrandr = Ok("Screen 0", x),
                        !.find_edid = Ok("/sys/class/drm/card0-eDP-1/edid", "files" :> fs),
                        !.edid_decode = ("card0-eDP-1" :> e1) @@ ("card0-HDMI-A-1" :> e2)] :
                    x \in {EmptyDict} \cup {"mm" :> [width |-> d[1], height |-> d[2]] :
                                                d \in {<<0, 0>>, <<310, 0>>, <<310, 174>>}},
                    fs \in {<<"card0-eDP-1">>, <<"card0-HDMI-A-1", "card0-eDP-1">>},
                    e1 \in {Failed("missing"), Ok("EDID version: 1.4", EmptyDict)}
                            \cup {Ok("EDID version: 1.4",
                                      "Maximum image size" :> [width |-> d[1], height |-> d[2]]) :
                                    d \in {<<0, 0>>, <<31, 17>>}},
                    e2 \in {Failed("timeout"),
                            Ok("EDID version: 1.3",
                               "Maximum image size" :> [width |-> 0, height |-> 0])}}
         [] probe = "detect_graphics" ->
            {NoMatchMachine, SilentMachine("timeout")}
            \cup {[NoMatchMachine EXCEPT !.lspci = Ok("00:02.0 VGA", "gpu_lines" :> ls)] :
                    ls \in gpu_lines}
         [] probe = "detect_storage" ->
            {[NoMatchMachine EXCEPT !.lsblk = Ok("NAME SIZE TYPE ROTA", "rows" :> rs),
                                    !.removable = ("sda" :> a) @@ ("sdb" :> b)] :
                rs \in rows,
                a \in {Ok("0", EmptyDict), Ok("1", EmptyDict), Failed("timeout")},
                b \in {Ok("0", EmptyDict), Ok("1", EmptyDict)}}

InitProbe ==
    /\ pc \in {"detect_processor", "detect_memory", "detect_display", "detect_graphics",
               "detect_storage"}
    /\ runs = 1
    /\ raw_data = EmptyDict
    /\ Fresh

ProbeOnce == probed = <<>> /\ RunProbe(ProbeMachines(pc))

SpecProbe == InitProbe /\ [][ProbeOnce]_vars

(***************************************************************************)
(* upload_to_database called on an empty store with an attribute set that  *)
(* holds any of the operator's five attributes, each as "Yes" or as '', or *)
(* none of them.                                                           *)
(***************************************************************************)
InitUpload ==
    /\ pc = "upload"
    /\ runs = 1
    /\ raw_data \in {BlankBag, LaptopBag("Latitude 5490", 8)}
    /\ \E manual \in [{"_KeyboardLanguage_24678_CAT_1002_EN",
                       "_BacklitKeyboard_24680_CAT_1002_EN",
                       "_ConvertibleHybridDisplay_36185_CAT_1002_EN",
                       "_Colour_5105_CAT_1002_EN",
                       "_ProductCondition_20257570_CAT_1002_EN"} -> {None, S(""), S("Yes")}] :
        bestbuy_data = Update(map_to_bestbuy_fields(raw_data), RemoveNone(manual))
    /\ args = [upload |-> TRUE]
    /\ imported = TRUE
    /\ secrets_file = [exists |-> TRUE, keys |-> RequiredSecrets]
    /\ client = TRUE
    /\ files = <<>>
    /\ laptop_models = {}
    /\ laptop_hardware_data = {}
    /\ laptop_variants = {}
    /\ laptops = {}
    /\ laptop_manual_fields = {}
    /\ next_id = 1
    /\ calls = <<>>
    /\ model_id = None
    /\ variant_id = None
    /\ shop_sku = None
    /\ result = NoResult
    /\ raised = ""
    /\ store_at_call = EmptyStore
    /\ last_upload = NoUpload
    /\ prev_upload = NoUpload
    /\ probed = <<>>
    /\ commands = <<>>
    /\ prompted = <<>>

NextUpload ==
    \/ upload_to_database
    \/ ModelQuery
    \/ ModelInsert
    \/ HardwareUpsert
    \/ VariantQuery
    \/ VariantInsert
    \/ InventoryUpsert
    \/ ManualFieldsUpsert

SpecUpload == InitUpload /\ [][NextUpload]_vars

(***************************************************************************)
(* Properties.                                                             *)
(***************************************************************************)
\* upload_to_database has been entered in this run / has returned or raised.
UploadEntered == client /\ pc # "upload"
UploadFinished == client /\ pc = "end"

\* The remote call was issued in this run and did not raise.
Succeeded(call) ==
    \E i \in DOMAIN calls : calls[i] = call /\ (i < Len(calls) \/ raised = "")

\* The model configuration this run uploads, and the one of the call before.
ThisModel == model_data(raw_data, bestbuy_data)
PrevModel == model_data(prev_upload.raw, prev_upload.bb)
SameInputsAsPrev ==
    /\ prev_upload.called
    /\ PrevModel = ThisModel
    /\ GetOrNone(prev_upload.raw, "brand") = GetOrNone(raw_data, "brand")

\* The model rows that carry exactly the configuration md.
RowsOf(models, md) == {m \in models : ModelRow(md, m.id) = m}

\* The call before this one left a model row behind: it inserted one, or found one.
PrevLeftModel ==
    \/ prev_upload.status \in {"exists", "created"}
    \/ prev_upload.status = "raised" /\ Len(prev_upload.calls) > 2

SecondCallIsNoOp ==
    /\ result.status = "exists"
    /\ Cardinality(RowsOf(laptop_models, ThisModel)) = 1
    /\ Store = store_at_call

\* C1 (as stated): a second call with the same inputs whose existence query
\* succeeds returns "exists", leaves exactly one model row of the configuration
\* and adds no row, whatever the first call did.
C1_Original ==
    (UploadFinished /\ SameInputsAsPrev /\ Succeeded("laptop_models.select"))
        => SecondCallIsNoOp

\* C1 (amended): the same, provided the first call got as far as inserting the
\* model row or itself found it.
C1_SecondCallExists ==
    (UploadFinished /\ SameInputsAsPrev /\ PrevLeftModel
        /\ Succeeded("laptop_models.select"))
        => SecondCallIsNoOp

C1_Witness ==
    /\ UploadFinished /\ SameInputsAsPrev
    /\ prev_upload.status = "raised" /\ Len(prev_upload.calls) > 2
    /\ result.status = "exists"

\* C2: when the existence query finds a model row, the call issues no other
\* remote call, leaves all tables unchanged and returns "exists" with the id
\* of a found row and null variant_id and shop_sku.
C2_ExistsIsNoOp ==
    (UploadEntered /\ Succeeded("laptop_models.select")
        /\ RowsOf(store_at_call.laptop_models, ThisModel) # {})
        => /\ pc = "end"
           /\ calls = <<"laptop_models.select">>
           /\ Store = store_at_call
           /\ result.status = "exists"
           /\ \E m \in RowsOf(store_at_call.laptop_models, ThisModel) :
                result.model_id = N(m.id)
           /\ IsNone(result.variant_id)
           /\ IsNone(result.shop_sku)

C2_Witness ==
    /\ UploadFinished
    /\ result.status = "exists"
    /\ laptop_hardware_data # {}

\* No remote call appears twice.
NoRepeat(cs) == \A i, j \in DOMAIN cs : cs[i] = cs[j] => i = j

\* Every row the tables held when the call was entered is still there.
NothingDeleted ==
    /\ store_at_call.laptop_models \subseteq laptop_models
    /\ store_at_call.laptop_hardware_data \subseteq laptop_hardware_data
    /\ store_at_call.laptop_variants \subseteq laptop_variants
    /\ store_at_call.laptops \subseteq laptops
    /\ store_at_call.laptop_manual_fields \subseteq laptop_manual_fields

\* The rows the successful steps of this call wrote are in the tables.
WrittenRowsKept ==
    /\ Succeeded("laptop_models.insert") =>
        \E m \in laptop_models \ store_at_call.laptop_models : N(m.id) = model_id
    /\ Succeeded("laptop_hardware_data.upsert") =>
        \E h \in laptop_hardware_data : N(h.model_id) = model_id
    /\ Succeeded("laptop_variants.insert") =>
        \E v \in laptop_variants \ store_at_call.laptop_variants : N(v.id) = variant_id
    /\ Succeeded("laptops.upsert") =>
        \E l \in laptops : N(l.model_id) = model_id

\* C3: a remote call that raises ends the call with the error at the caller:
\* no result, no later remote call, no call attempted twice, and the rows of
\* the earlier steps left in place.
C3_FailurePropagates ==
    /\ NoRepeat(calls)
    /\ (UploadEntered /\ raised # "") =>
        /\ pc = "end"
        /\ result = NoResult
        /\ last_upload.status = "raised"
        /\ last_upload.calls = calls
        /\ NothingDeleted
        /\ WrittenRowsKept

C3_Witness ==
    /\ UploadFinished /\ raised # ""
    /\ calls[Len(calls)] = "laptops.upsert"
    /\ \E v \in laptop_variants : N(v.id) = variant_id

FileCount(name) == Cardinality({i \in DOMAIN files : files[i].name = name})
\* Each of the two JSON files was written once in this run, with the record.
BothFilesOnce ==
    /\ Len(files) = 2
    /\ FileCount("laptop_hardware_data.json") = 1
    /\ FileCount("laptop_hardware_data_bestbuy_only.json") = 1
    /\ \A i \in DOMAIN files :
        /\ files[i].bestbuy_fields = bestbuy_data
        /\ files[i].name = "laptop_hardware_data.json" =>
            files[i].raw_hardware_data = raw_data

\* C4: a run persists one way.  Without --upload no remote call is made and
\* both files are written once; with it, either upload_to_database returned a
\* result and no file is written, or an error was caught and both files are
\* written once.
C4_PersistedOneWay ==
    /\ ~args.upload => calls = <<>> /\ ~client
    /\ FileCount("laptop_hardware_data.json") <= 1
    /\ FileCount("laptop_hardware_data_bestbuy_only.json") <= 1
    /\ pc = "end" =>
        IF ~args.upload THEN BothFilesOnce /\ raised = ""
        ELSE \/ /\ result.status \in {"created", "exists"}
                /\ raised = ""
                /\ files = <<>>
             \/ /\ raised # ""
                /\ result = NoResult
                /\ BothFilesOnce

C4_Witness ==
    /\ pc = "end" /\ args.upload /\ raised # ""
    /\ Succeeded("laptop_models.insert")
    /\ BothFilesOnce

\* cs is a prefix of order.
IsPrefix(cs, order) ==
    /\ Len(cs) <= Len(order)
    /\ \A i \in DOMAIN cs : cs[i] = order[i]

CreationOrder ==
    <<"laptop_models.select", "laptop_models.insert", "laptop_hardware_data.upsert",
      "laptop_variants.select", "laptop_variants.insert", "laptops.upsert",
      "laptop_manual_fields.upsert">>
CreationOrderReusingVariant ==
    <<"laptop_models.select", "laptop_models.insert", "laptop_hardware_data.upsert",
      "laptop_variants.select", "laptops.upsert", "laptop_manual_fields.upsert">>

\* C5: the remote calls of a call are issued in the order model, hardware
\* detail, variant query and insert, inventory, manual fields; a step is
\* issued only when all before it succeeded, and "created" is returned only
\* after all of them succeeded.
C5_CreationOrder ==
    UploadEntered =>
        /\ IsPrefix(calls, CreationOrder) \/ IsPrefix(calls, CreationOrderReusingVariant)
        /\ \A i \in DOMAIN calls : i < Len(calls) => Succeeded(calls[i])
        /\ result.status = "created" =>
            /\ calls \in {CreationOrder, CreationOrderReusingVariant}
            /\ raised = ""
            /\ \E m \in laptop_models : N(m.id) = model_id
            /\ \E h \in laptop_hardware_data : N(h.model_id) = model_id
            /\ \E v \in laptop_variants : N(v.id) = variant_id
            /\ \E l \in laptops : N(l.model_id) = model_id
            /\ \E f \in laptop_manual_fields : f["variant_id"] = variant_id

C5_Witness ==
    /\ UploadFinished
    /\ result.status = "created"
    /\ calls = CreationOrder

BadSecretsFile ==
    /\ secrets_file # UnreadFile
    /\ \/ ~secrets_file.exists
       \/ "supabase_url" \notin secrets_file.keys
       \/ "supabase_anon_key" \notin secrets_file.keys

\* C6: a credentials file that is missing, or lacks the URL or the key, makes
\* load_secrets raise; main creates no client, issues no remote call and
\* writes both JSON files.
C6_BadSecretsFallBack ==
    BadSecretsFile =>
        /\ raised = (IF secrets_file.exists THEN "ValueError" ELSE "FileNotFoundError")
        /\ ~client
        /\ calls = <<>>
        /\ pc = "end"
        /\ BothFilesOnce

C6_Witness ==
    /\ BadSecretsFile
    /\ secrets_file.exists
    /\ secrets_file.keys = {"supabase_url"}
    /\ BothFilesOnce

\* The value the processor-speed attribute is drawn from.
SpeedSource(raw) == Get(raw, "cpu_max_ghz", Get(raw, "cpu_speed_ghz", S("")))

\* C7 (as stated): after the mapping, an attribute whose raw-bag value is
\* missing or falsy is absent from the attribute set, for every attribute of
\* the table that reads one raw-bag value.
C7_Original ==
    pc = "prompt" =>
        /\ \A f \in DirectFields \cup YesNoFields :
            ~Truthy(GetOrNone(raw_data, f[2])) => f[1] \notin DOMAIN bestbuy_data
        /\ ~Truthy(SpeedSource(raw_data)) => ProcessorSpeedKey \notin DOMAIN bestbuy_data

\* C7 (amended): that holds of the attributes copied from the raw bag; the
\* five Yes/No attributes are always present, "No" when their raw value is
\* missing or falsy, and BBYCat, shop_sku and the RAM type are always present.
C7_DirectFieldsPruned ==
    pc = "prompt" =>
        /\ \A f \in DirectFields :
            ~Truthy(GetOrNone(raw_data, f[2])) => f[1] \notin DOMAIN bestbuy_data
        /\ ~Truthy(SpeedSource(raw_data)) => ProcessorSpeedKey \notin DOMAIN bestbuy_data
        /\ \A f \in YesNoFields :
            /\ f[1] \in DOMAIN bestbuy_data
            /\ bestbuy_data[f[1]] = YesNo(Truthy(GetOrNone(raw_data, f[2])))
        /\ {"BBYCat", "shop_sku", RAMTypeKey} \subseteq DOMAIN bestbuy_data

C7_Witness ==
    /\ pc = "prompt"
    /\ "brand" \in DOMAIN raw_data /\ raw_data["brand"] = S("")
    /\ "_Brand_Name_Category_Root_EN" \notin DOMAIN bestbuy_data
    /\ "ram_size_gb" \notin DOMAIN raw_data
    /\ bestbuy_data[TouchscreenKey] = S("No")
    /\ "_ProcessorType_3885_CAT_1002_EN" \notin DOMAIN bestbuy_data

\* An empty value: None, '' or [].
IsEmpty(v) == IsNone(v) \/ (v.t = "s" /\ v.v = "") \/ (v.t = "l" /\ Len(v.v) = 0)

\* C8: when main persists the record, no key of the attribute set has an
\* empty value.
C8_NoEmptyValueAtPersist ==
    pc = "persist" => \A k \in DOMAIN bestbuy_data : ~IsEmpty(bestbuy_data[k])

\* The brand of the machine a model row was created from.
BrandsOf(m) == {h.brand : h \in {x \in laptop_hardware_data : x.model_id = m.id}}

SameButName(m1, m2) ==
    /\ m1.cpu_model = m2.cpu_model
    /\ m1.screen_size_inches = m2.screen_size_inches
    /\ m1.has_touchscreen = m2.has_touchscreen
    /\ m1.integrated_gpu_model = m2.integrated_gpu_model
    /\ m1.dedicated_gpu_model = m2.dedicated_gpu_model

\* C9 (as stated): no two model rows agree on brand, CPU, screen size,
\* touchscreen flag and both GPU models.
C9_Original ==
    \A m1, m2 \in laptop_models :
        (SameButName(m1, m2) /\ BrandsOf(m1) \cap BrandsOf(m2) # {}) => m1 = m2

\* C9 (amended): no two model rows agree on model name (base_model_name), CPU,
\* screen size, touchscreen flag and both GPU models, and a model row is
\* inserted only when the store held no row with the upload's values of them.
C9_UniqueModels ==
    /\ \A m1, m2 \in laptop_models :
        (SameButName(m1, m2) /\ m1.base_model_name = m2.base_model_name) => m1 = m2
    /\ (UploadEntered /\ Succeeded("laptop_models.insert")) =>
        RowsOf(store_at_call.laptop_models, ThisModel) = {}

C9_Witness ==
    \E m1, m2 \in laptop_models :
        /\ SameButName(m1, m2)
        /\ m1.base_model_name # m2.base_model_name
        /\ BrandsOf(m1) \cap BrandsOf(m2) # {}

\* The variant step of this call is over: its query found a row, or its
\* insert succeeded.
VariantStepDone ==
    /\ UploadEntered
    /\ Succeeded("laptop_variants.select")
    /\ pc # "variant_insert"
    /\ ~(calls[Len(calls)] = "laptop_variants.insert" /\ raised # "")

\* C10: no two variant rows share model id, RAM size and storage size, and
\* once the variant step is done variant_id and shop_sku are those of the
\* stored row of this model with the detected RAM and storage.
C10_UniqueVariants ==
    /\ \A v1, v2 \in laptop_variants :
        (/\ v1.model_id = v2.model_id
         /\ v1.ram_size_gb = v2.ram_size_gb
         /\ v1.ssd_capacity_gb = v2.ssd_capacity_gb) => v1 = v2
    /\ VariantStepDone =>
        \E v \in laptop_variants :
            /\ N(v.id) = variant_id
            /\ v.shop_sku = shop_sku
            /\ N(v.model_id) = model_id
            /\ v.ram_size_gb = Get(raw_data, "ram_size_gb", N(0))
            /\ v.ssd_capacity_gb = Get(raw_data, "ssd_capacity_gb", N(0))

C10_Witness ==
    /\ UploadFinished /\ result.status = "created"
    /\ \E v1, v2 \in laptop_variants :
        /\ v1.model_id # v2.model_id
        /\ v1.ram_size_gb = v2.ram_size_gb
        /\ v1.ssd_capacity_gb = v2.ssd_capacity_gb

\* The inventory rows of model id mid in a table.
InventoryOf(table, mid) == {l \in table : l.model_id = mid}

\* C11: a model has at most one inventory row; the inventory row of a model
\* an upload created has both counters at zero; and an upload leaves the
\* inventory rows of the models that existed when it was entered as they were.
C11_InventoryOnePerModel ==
    /\ \A l1, l2 \in laptops : l1.model_id = l2.model_id => l1 = l2
    /\ (UploadFinished /\ result.status = "created") =>
        /\ InventoryOf(laptops, model_id.v) # {}
        /\ \A l \in InventoryOf(laptops, model_id.v) :
            l.inventory_count = N(0) /\ l.damaged_count = N(0)
    /\ UploadEntered =>
        \A m \in store_at_call.laptop_models :
            InventoryOf(laptops, m.id) = InventoryOf(store_at_call.laptops, m.id)

C11_Witness ==
    /\ UploadFinished /\ result.status = "created"
    /\ \E m \in store_at_call.laptop_models, l \in laptops :
        l.model_id = m.id /\ l.inventory_count = N(1)
    /\ \E l \in laptops : N(l.model_id) = model_id /\ l.inventory_count = N(0)

\* C12: no step of a run removes a key from the raw bag: the probes, the
\* mapping, the prompts and the saving only add keys or overwrite values.
C12_KeysNeverRemoved == [][DOMAIN raw_data \subseteq DOMAIN raw_data']_vars

\* The run is over, and the battery capacity upower gave (450 Wh at 11.4 V is
\* 3947 mAh) was overwritten by the one from /sys/class/power_supply.
C12_Witness ==
    /\ pc = "end" /\ files # <<>>
    /\ Len(probed) = Len(ProbeOrder)
    /\ GetOrNone(raw_data, "upower") = S("native-path: BAT0")
    /\ GetOrNone(raw_data, "battery_capacity_mah") = N(3900)
    /\ IsNone(GetOrNone(raw_data, "gpu_type"))

\* C13: detect_all terminates, and it has then run the ten probes in the
\* order system identity, processor, memory, display, graphics, storage,
\* battery, network, USB, webcam, whatever the commands of each probe did.
C13_AllProbesRun ==
    /\ [](IsPrefix(probed, ProbeOrder))
    /\ [](pc = "map" => probed = ProbeOrder)
    /\ <>(pc = "map")

\* All ten probes ran although every command timed out or was missing.
C13_Witness ==
    /\ pc = "map"
    /\ probed = ProbeOrder
    /\ commands = CommandsFrom(SilentMachine("timeout"), 1)
    /\ raw_data = DetectFrom(EmptyDict, SilentMachine("timeout"), 1)

\* The machines on which every command fails or matches nothing.
FailingMachines == {SilentMachine("missing"), SilentMachine("timeout"), NoMatchMachine}

\* This step is the probe pc names, run on machine m.
ProbeRanOn(m) ==
    /\ pc \in {ProbeOrder[i] : i \in DOMAIN ProbeOrder}
    /\ pc' = ProbeAfter(pc)
    /\ raw_data' = Probe(pc, raw_data, m)
    /\ commands' = commands \o Commands(pc, m)

AlwaysDefaulted == DOMAIN Defaults \ {"usb_port_count", "storage_controller_type"}

GpuLinesKept == Get(raw_data, "gpus", L(<<>>)).v

RECURSIVE DevicesNotExcluded(_, _, _)
DevicesNotExcluded(m, rows, i) ==
    IF i > Len(rows) THEN <<>>
    ELSE (IF rows[i].type = "disk" /\ ~SkipsDiskAlways(m, rows[i])
          THEN <<[device |-> rows[i].name, size |-> rows[i].size,
                  type |-> IF rows[i].rota = "1" THEN "HDD" ELSE "SSD"]>>
          ELSE <<>>)
         \o DevicesNotExcluded(m, rows, i + 1)

\* C16: after detect_storage, no disk that is removable or below 32 GB is in
\* storage_devices, whatever its size string, and the capacities are those of
\* the other disks.
C16_ExcludedDisks ==
    [][\A m \in ProbeMachines("detect_storage") :
        pc = "detect_storage" /\ ProbeRanOn(m) =>
            LET rows == Get(run_command(m.lsblk).found, "rows", <<>>)
                kept == DevicesNotExcluded(m, rows, 1)
                capacity(key, type) ==
                    IF TotalGb(kept, type) > 0
                    THEN GetOrNone(raw_data', key) = N(Round(TotalGb(kept, type), 10000))
                    ELSE key \notin DOMAIN raw_data'
            IN /\ \A i \in DOMAIN rows :
                    SkipsDiskAlways(m, rows[i]) =>
                        \A j \in DOMAIN raw_data'["storage_devices"].v :
                            raw_data'["storage_devices"].v[j].device # rows[i].name
               /\ capacity("ssd_capacity_gb", "SSD")
               /\ capacity("hdd_capacity_gb", "HDD")]_vars

\* The list storage_devices of the raw bag, <<>> before detect_storage.
DevicesKept == Get(raw_data, "storage_devices", L(<<>>)).v

\* The sum of the sizes of the kept devices of a type in 1/10000 GB, a size
\* being a number of tenths followed by G or T and a T being gb_per_t GB.
CapacityOfKept(type, gb_per_t) ==
    Sum([i \in DOMAIN DevicesKept |->
            IF DevicesKept[i].type = type /\ SizeMatches(DevicesKept[i].size)
            THEN LET sz == SizeTable[DevicesKept[i].size]
                 IN IF sz.unit = "G" THEN sz.value * 1000
                    ELSE IF sz.unit = "T" THEN sz.value * 1000 * gb_per_t
                    ELSE 0
            ELSE 0])

\* Both SSDs of the example are kept: "256G" and "1T".
ExampleKept ==
    /\ probed = <<"detect_storage">>
    /\ DevicesKept = <<[device |-> "sda", size |-> "256G", type |-> "SSD"],
                       [device |-> "sdb", size |-> "1T", type |-> "SSD"]>>

\* C17 (as stated): ssd_capacity_gb and hdd_capacity_gb are the sums of the
\* sizes of the kept disks of their type in GB, "256G" and "1T" making 1280.
C17_Original ==
    probed = <<"detect_storage">> =>
        /\ \A key \in {"ssd_capacity_gb", "hdd_capacity_gb"} :
            LET total == CapacityOfKept(IF key = "ssd_capacity_gb" THEN "SSD" ELSE "HDD", 1024)
            IN total > 0 => GetOrNone(raw_data, key) = N(Round(total, 10000))
        /\ ExampleKept => GetOrNone(raw_data, "ssd_capacity_gb") = N(1280)

\* C17 (amended): ssd_capacity_gb is the sum over the kept non-rotational
\* disks of their sizes in GB, a size in T counting as 1000 GB, rounded to the
\* nearest integer (half to even), and is set only when the sum is positive;
\* hdd_capacity_gb likewise over the rotational disks.  A kept disk whose
\* size string has no match adds nothing.  "256G" and "1T" make 1256.
C17_CapacitySums ==
    probed = <<"detect_storage">> =>
        /\ \A key \in {"ssd_capacity_gb", "hdd_capacity_gb"} :
            LET total == CapacityOfKept(IF key = "ssd_capacity_gb" THEN "SSD" ELSE "HDD", 1000)
            IN IF total > 0 THEN GetOrNone(raw_data, key) = N(Round(total, 10000))
               ELSE key \notin DOMAIN raw_data
        /\ ExampleKept => GetOrNone(raw_data, "ssd_capacity_gb") = N(1256)

C17_Witness ==
    /\ ExampleKept
    /\ GetOrNone(raw_data, "ssd_capacity_gb") = N(1256)
    /\ "hdd_capacity_gb" \notin DOMAIN raw_data

\* C18: when detect_memory got no installed-module size from dmidecode and
\* read MemTotal, ram_size_gb is a member of the fixed list, no other member
\* is strictly closer to the total, and 7.5 GB gives 8.
C18_NearestStandardSize ==
    [][\A m \in ProbeMachines("detect_memory") :
        /\ pc = "detect_memory"
        /\ ProbeRanOn(m)
        /\ installed_ram_sizes(Get(run_command(m.dmidecode_memory).found, "sections", <<>>))
                = <<>>
        /\ Matched(run_command(m.meminfo), "MemTotal")
        => LET kb == run_command(m.meminfo).found["MemTotal"].v
               sizes == {2, 4, 6, 8, 12, 16, 24, 32, 48, 64, 96, 128, 192, 256}
               away(gb) == IF gb * 1024 * 1024 >= kb THEN gb * 1024 * 1024 - kb
                           ELSE kb - gb * 1024 * 1024
               ram == GetOrNone(raw_data', "ram_size_gb")
           IN /\ ram.t = "n"
              /\ ram.v \in sizes
              /\ \A gb \in sizes : away(gb) >= away(ram.v)
              /\ kb = 7864320 => ram.v = 8]_vars

\* dmidecode failed and MemTotal was 7.5 GB or 7.63 GB: ram_size_gb is 8.
C18_Witness ==
    /\ probed = <<"detect_memory">>
    /\ GetOrNone(raw_data, "dmidecode_memory") = S("")
    /\ GetOrNone(raw_data, "ram_size_gb") = N(8)
    /\ GetOrNone(raw_data, "ram_soldered") = B(TRUE)

C20_ScreenSizePrompt ==
    [][pc = "prompt" =>
        LET asked == {i \in DOMAIN prompted' :
                        i > Len(prompted) /\ prompted'[i].prompt = "Screen size"}
        IN /\ asked # {} =>
                \/ "screen_size_inches" \notin DOMAIN raw_data
                \/ raw_data["screen_size_inches"] = N(0)
           /\ \A i \in asked :
                prompted'[i].answer \notin {"15.6", "0"} =>
                    GetOrNone(raw_data', "screen_size_inches") = N(140)
           /\ "screen_size_inches" \in DOMAIN raw_data']_vars

\* The operator pressed Enter at the screen-size prompt.
C20_Witness ==
    /\ pc = "persist"
    /\ prompted # <<>>
    /\ prompted[1] = [prompt |-> "Screen size", answer |-> ""]
    /\ GetOrNone(raw_data, "screen_size_inches") = N(140)

\* The attributes prompt_manual_fields writes.
PromptKeys ==
    {"_KeyboardLanguage_24678_CAT_1002_EN", "_BacklitKeyboard_24680_CAT_1002_EN",
     "_ConvertibleHybridDisplay_36185_CAT_1002_EN", "_Colour_5105_CAT_1002_EN",
     "_ProductCondition_20257570_CAT_1002_EN"}

\* The prompts left the raw bag as the first mapping saw it.
RawBagAsMapped ==
    \A i \in DOMAIN prompted :
        prompted[i].prompt \notin {"Screen size", "Touchscreen Display"}

C22_L3CacheUnit ==
    [][\A m \in ProbeMachines("detect_processor") :
        pc = "detect_processor" /\ ProbeRanOn(m) =>
            LET lscpu == run_command(m.lscpu)
            IN IF "L3 cache" \in DOMAIN lscpu.found
               THEN LET unit == lscpu.found["L3 cache"].unit
                        unit_b == CASE unit = "KiB" -> "KB"
                                    [] unit = "MiB" -> "MB"
                                    [] unit = "GiB" -> "GB"
                    IN GetOrNone(raw_data', "cpu_l3_cache")
                            = S(lscpu.found["L3 cache"].size \o " " \o unit_b \o " L3")
               ELSE "cpu_l3_cache" \notin DOMAIN raw_data']_vars

\* lscpu printed "L3 cache: 1.5 GiB".
C22_Witness ==
    /\ probed = <<"detect_processor">>
    /\ GetOrNone(raw_data, "cpu_model") = S("AMD Ryzen 5 3500U")
    /\ GetOrNone(raw_data, "cpu_l3_cache") = S("1.5 GB L3")

\* C23: when upload_to_database has returned a result, the model the result
\* names has a hardware-detail row, a variant row and an inventory row.
C23_ResultIsComplete ==
    (UploadFinished /\ result.status \in {"created", "exists"}) =>
        /\ \E h \in laptop_hardware_data : N(h.model_id) = result.model_id
        /\ \E v \in laptop_variants : N(v.model_id) = result.model_id
        /\ \E l \in laptops : N(l.model_id) = result.model_id

\* C24: when main is about to save or upload, the screen-size attribute is
\* the raw bag's screen_size_inches if that is set and not zero, and the
\* touchscreen attribute is "Yes" exactly when has_touchscreen is True.
C24_AttributesAgree ==
    pc = "persist" =>
        /\ ("screen_size_inches" \in DOMAIN raw_data
                /\ ~PyEq(raw_data["screen_size_inches"], N(0))) =>
            GetOrNone(bestbuy_data, "_ScreenSize_3914_CAT_1002_EN")
                = raw_data["screen_size_inches"]
        /\ GetOrNone(bestbuy_data, "_TouchscreenDisplay_23335_CAT_1002_EN") = S("Yes")
            <=> GetOrNone(raw_data, "has_touchscreen") = B(TRUE)

\* C25: after detect_graphics, gpu_type is "Dedicated or Discrete GPU" only
\* if dedicated_gpu_model is set, and "Integrated GPU" only if
\* integrated_gpu_model is set and dedicated_gpu_model is not.
C25_TypeAgreesWithModels ==
    probed = <<"detect_graphics">> =>
        /\ GetOrNone(raw_data, "gpu_type") = S("Dedicated or Discrete GPU") =>
            "dedicated_gpu_model" \in DOMAIN raw_data
        /\ GetOrNone(raw_data, "gpu_type") = S("Integrated GPU") =>
            /\ "integrated_gpu_model" \in DOMAIN raw_data
            /\ "dedicated_gpu_model" \notin DOMAIN raw_data

\* C26: the manual-fields step issues one upsert to laptop_manual_fields for
\* every attribute set; the row it writes carries backlit_keyboard and
\* convertible_hybrid, False when the attribute is not "Yes" or is missing.
C26_ManualFieldsAlwaysWritten ==
    [][pc = "manual_fields" /\ pc' # pc =>
        /\ calls' = Append(calls, "laptop_manual_fields.upsert")
        /\ raised' = "" =>
            \E row \in laptop_manual_fields' :
                /\ row["variant_id"] = variant_id
                /\ {"backlit_keyboard", "convertible_hybrid"} \subseteq DOMAIN row
                /\ row["backlit_keyboard"] =
                    B(GetOrNone(bestbuy_data, "_BacklitKeyboard_24680_CAT_1002_EN") = S("Yes"))
                /\ row["convertible_hybrid"] =
                    B(GetOrNone(bestbuy_data, "_ConvertibleHybridDisplay_36185_CAT_1002_EN")
                        = S("Yes"))]_vars

\* An upload of an attribute set without any of the operator's attributes.
C26_Witness ==
    /\ pc = "end"
    /\ result.status = "created"
    /\ DOMAIN bestbuy_data \cap PromptKeys = {}
    /\ \E row \in laptop_manual_fields :
        /\ DOMAIN row = {"variant_id", "backlit_keyboard", "convertible_hybrid"}
        /\ row["backlit_keyboard"] = B(FALSE)
        /\ row["convertible_hybrid"] = B(FALSE)

\* C27: after detect_display, screen_size_inches is greater than zero if it
\* is in the raw bag.
C27_ScreenSizePositive ==
    probed = <<"detect_display">> =>
        ("screen_size_inches" \in DOMAIN raw_data => raw_data["screen_size_inches"].v > 0)

\* C28: if dmidecode lists an installed module with a size in GB, ram_size_gb
\* is the sum of the module sizes, whether or not MemTotal was read.
C28_ModuleSumUsed ==
    [][\A m \in ProbeMachines("detect_memory") :
        pc = "detect_memory" /\ ProbeRanOn(m) =>
            LET sizes == installed_ram_sizes(
                            Get(run_command(m.dmidecode_memory).found, "sections", <<>>))
            IN sizes # <<>> => GetOrNone(raw_data', "ram_size_gb") = N(Sum(sizes))]_vars

====
